---- MODULE Spec2Model ----
(***************************************************************************)
(* A model of the workflow-configuration editor of src/app.py.             *)
(*                                                                         *)
(* The session state (st.session_state) holds the committed document       *)
(* "config" and the two stacks "history" (past) and "future".  Python      *)
(* stores dict objects by reference, and the code mutates some of them in  *)
(* place, so documents and output file entries live in two heaps:          *)
(*   docs  : document object  -> its six sections                          *)
(*   files : file_config object -> the dict of one output entry            *)
(* config / history / future hold document references; a document's        *)
(* output.commands holds file references.  Structural equality (Python ==) *)
(* is equality of the dereferenced values (View).                          *)
(*                                                                         *)
(* Strings that the code parses (binding expressions, parameter ids, path  *)
(* templates, reference file patterns) are sequences of atoms: every       *)
(* separator the code splits or matches on is an atom of its own.          *)
(* Python dicts are functions with a finite domain; the input mapping,     *)
(* whose insertion order the code iterates in, is a sequence of pairs.     *)
(***************************************************************************)
EXTENDS Integers, Sequences, FiniteSets, TLC

VARIABLES config, history, future, docs, files, elements, downloads, last, call

vars == <<config, history, future, docs, files, elements, downloads, last, call>>

(***************************************************************************)
(* Bounds of the model.                                                    *)
(***************************************************************************)
MaxDocs == 4
MaxFiles == 2
MaxParams == 1
\* The parameters of a session that only adds and removes parameters
MaxIds == 3

MaxOutputs == 2

MaxCols == 1

MaxEdits == 2

\* The files of one bootstrapping
MaxExamples == 2

\* The retries an autoretry wrapper is built with
MaxRetries == 3


(***************************************************************************)
(* Python dict and list helpers.                                           *)
(***************************************************************************)
EmptyDict == <<>>

Has(d, k) == k \in DOMAIN d

Get(d, k, dflt) == IF k \in DOMAIN d THEN d[k] ELSE dflt

Put(d, k, v) == [x \in (DOMAIN d) \cup {k} |-> IF x = k THEN v ELSE d[x]]

Del(d, k) == [x \in (DOMAIN d) \ {k} |-> d[x]]

Range(s) == {s[i] : i \in DOMAIN s}

SelectIdx(s, keep(_)) ==
    LET F[i \in 0..Len(s)] ==
            IF i = 0 THEN <<>>
            ELSE IF keep(i) THEN Append(F[i - 1], s[i]) ELSE F[i - 1]
    IN F[Len(s)]

Min(S) == CHOOSE x \in S : \A y \in S : x <= y

\* x bound to a value for the expression F (a local name for a result)
With(x, F(_)) == F(x)

(***************************************************************************)
(* Strings as sequences of atoms.                                          *)
(***************************************************************************)
StartsWith(s, p) == Len(s) >= Len(p) /\ SubSeq(s, 1, Len(p)) = p

DropFirst(s, n) == SubSeq(s, n + 1, Len(s))

\* sep.join(parts)
Join(parts, sep) ==
    LET F[i \in 0..Len(parts)] ==
            IF i = 0 THEN <<>>
            ELSE IF i = 1 THEN parts[1]
            ELSE F[i - 1] \o <<sep>> \o parts[i]
    IN F[Len(parts)]

\* s.split(sep): always at least one part, the empty string splits to [""]
Split(s, sep) ==
    LET F[i \in 0..Len(s)] ==
            IF i = 0 THEN << <<>> >>
            ELSE LET prev == F[i - 1]
                     n == Len(prev)
                 IN IF s[i] = sep THEN Append(prev, <<>>)
                    ELSE [prev EXCEPT ![n] = Append(prev[n], s[i])]
    IN F[Len(s)]

\* s.split(sep, 1)[0]
SplitFirst(s, sep) == Split(s, sep)[1]

\* s.rsplit(sep, 1)[-1]
RSplitLast(s, sep) == LET parts == Split(s, sep) IN parts[Len(parts)]

\* s.replace(old, new) for a one-atom old
Replace(s, old, new) == [i \in DOMAIN s |-> IF s[i] = old THEN new ELSE s[i]]

RECURSIVE LStrip(_, _)
LStrip(s, c) == IF s # <<>> /\ Head(s) = c THEN LStrip(Tail(s), c) ELSE s

RECURSIVE RStrip(_, _)
RStrip(s, c) ==
    IF s # <<>> /\ s[Len(s)] = c THEN RStrip(SubSeq(s, 1, Len(s) - 1), c) ELSE s

\* s.strip(c)
Strip(s, c) == RStrip(LStrip(s, c), c)

\* str.upper() and str.title() on the executor names the editor offers
Upper(s) ==
    CASE s = "Nextflow" -> "NEXTFLOW"
      [] s = "Cromwell" -> "CROMWELL"
      [] OTHER -> s

Title(s) ==
    CASE s \in {"NEXTFLOW", "Nextflow"} -> "Nextflow"
      [] s \in {"CROMWELL", "Cromwell"} -> "Cromwell"
      [] OTHER -> s

\* str(n) for the small numbers the model counts to
Digits == <<"1", "2", "3", "4", "5", "6", "7", "8", "9">>

Str(n) == Digits[n]

(***************************************************************************)
(* The data catalog (external collaborator), as one session sees it: the   *)
(* session cache returns the same lists for the whole session.             *)
(***************************************************************************)
list_references ==
    << [name |-> <<"Reference Genome (FASTA)">>,
        directory |-> <<"genome_fasta">>,
        validation |-> << <<"genome.fasta">>, <<"genome.fasta.fai">> >>],
       [name |-> <<"Barcode files (general)">>,
        directory |-> <<"barcodes">>,
        validation |-> << <<"barcode.txt">> >>] >>

list_processes ==
    << [name |-> "Paired DNAseq", id |-> "paired_dnaseq"],
       [name |-> "Single-cell RNAseq", id |-> "scrnaseq"] >>

(***************************************************************************)
(* SourceConfig: the workflow identity section ("dynamo").                 *)
(***************************************************************************)
root_kwargs ==
    [id |-> "unique-workflow-id",
     name |-> "My Workflow Name",
     desc |-> "Description of my workflow",
     executor |-> "NEXTFLOW",
     documentationUrl |-> "",
     childProcessIds |-> <<>>,
     parentProcessIds |-> <<>>]

code_kwargs ==
    [repository |-> "GITHUBPUBLIC",
     script |-> "main.nf",
     uri |-> "organization/repository_name",
     version |-> "main"]

\* SourceConfig.load: every attribute from the document, or its default
SourceLoad(cfg) ==
    LET dyn == Get(cfg, "dynamo", EmptyDict)
        code == Get(dyn, "code", EmptyDict)
    IN [kw \in (DOMAIN root_kwargs) \cup (DOMAIN code_kwargs) |->
            IF kw \in DOMAIN root_kwargs
            THEN Get(dyn, kw, root_kwargs[kw])
            ELSE Get(code, kw, code_kwargs[kw])]

\* SourceConfig.serve raises when a radio / selectbox index lookup fails
SourceServeOk(src) ==
    /\ Title(src.executor) \in {"Nextflow", "Cromwell"}
    /\ src.repository \in {"GITHUBPUBLIC", "GITHUBPRIVATE"}

\* SourceConfig.dump
SourceDump(src, cfg) ==
    LET dyn == cfg.dynamo
        code1 == [k \in (DOMAIN dyn.code) \cup (DOMAIN code_kwargs) |->
                     IF k \in DOMAIN code_kwargs THEN src[k] ELSE dyn.code[k]]
        dyn1 == [k \in (DOMAIN dyn) \cup (DOMAIN root_kwargs) |->
                     IF k = "code" THEN code1
                     ELSE IF k = "executor" THEN Upper(src[k])
                     ELSE IF k \in DOMAIN root_kwargs THEN src[k]
                     ELSE dyn[k]]
    IN [cfg EXCEPT !.dynamo = dyn1]

(***************************************************************************)
(* Param: one parameter binding.                                           *)
(***************************************************************************)
FormPrefix == "$.params.dataset.paramJson."

input_type_values ==
    [k \in {"Output Directory", "Input Directory", "Dataset Name"} |->
        CASE k = "Output Directory" -> <<"$.params.dataset.s3|/data/">>
          [] k = "Input Directory" -> <<"$.params.inputs[0].s3|/data/">>
          [] k = "Dataset Name" -> <<"$.params.dataset.name">>]

form_value_types == {"array", "boolean", "integer", "number", "string"}

\* Param.get_form_element: walk param_config["form"]["form"] along path,
\* creating the missing nodes in place; None of it is undone when a
\* KeyError on "properties" ends the walk.
RECURSIVE get_form_element(_, _, _, _)
get_form_element(form, path, ix, keylen) ==
    IF ix > Len(path)
    THEN [ok |-> TRUE, form |-> form, elem |-> Del(form, "properties")]
    ELSE IF ~Has(form, "properties")
    THEN [ok |-> FALSE, form |-> form, elem |-> EmptyDict]
    ELSE With(IF path[ix] \in DOMAIN form.properties THEN form.properties
              ELSE Put(form.properties, path[ix],
                       IF Len(path) = keylen /\ ix = Len(path)
                       THEN [type |-> "string", default |-> path[ix], title |-> path[ix]]
                       ELSE [properties |-> EmptyDict, type |-> "object"]),
              LAMBDA props1 :
                With(get_form_element(props1[path[ix]], path, ix + 1, keylen),
                     LAMBDA sub :
                        [ok |-> sub.ok,
                         form |-> Put(form, "properties", Put(props1, path[ix], sub.form)),
                         elem |-> sub.elem]))

\* The form type as it would be with a dataset node that has neither
\* process nor file taken for a value of the user
ParseFormTypeLenient(p, fc) ==
    IF Get(fc, "pathType", "") = "dataset"
    THEN [ok |-> TRUE,
          p |-> Put(p, "form_type", IF Has(fc, "process") THEN "Cirro Dataset"
                                    ELSE IF Has(fc, "file") THEN "Input File"
                                    ELSE "User-Provided Value")]
    ELSE IF Get(fc, "pathType", "") = "references"
    THEN IF Has(fc, "file") /\ StartsWith(fc.file, <<"**", "/">>)
         THEN [ok |-> TRUE,
               p |-> Put(Put(Put(p, "form_type", "Cirro Reference"),
                             "reference_id", SplitFirst(DropFirst(fc.file, 2), "/")),
                         "reference_file", RSplitLast(fc.file, "/"))]
         ELSE [ok |-> FALSE, p |-> Put(p, "form_type", "Cirro Reference")]
    ELSE [ok |-> TRUE, p |-> Put(p, "form_type", "User-Provided Value")]

\* The form type of a Form Entry, from its node (Param.__init__, 652-686)
ParseFormType(p, fc) ==
    IF Get(fc, "pathType", "") = "dataset"
    THEN IF Has(fc, "process") THEN [ok |-> TRUE, p |-> Put(p, "form_type", "Cirro Dataset")]
         ELSE IF Has(fc, "file") THEN [ok |-> TRUE, p |-> Put(p, "form_type", "Input File")]
         ELSE [ok |-> FALSE, p |-> p]
    ELSE IF Get(fc, "pathType", "") = "references"
    THEN IF Has(fc, "file") /\ StartsWith(fc.file, <<"**", "/">>)
         THEN [ok |-> TRUE,
               p |-> Put(Put(Put(p, "form_type", "Cirro Reference"),
                             "reference_id", SplitFirst(DropFirst(fc.file, 2), "/")),
                         "reference_file", RSplitLast(fc.file, "/"))]
         ELSE [ok |-> FALSE, p |-> Put(p, "form_type", "Cirro Reference")]
    ELSE [ok |-> TRUE, p |-> Put(p, "form_type", "User-Provided Value")]

\* The form elements of a parameter and of all its parents (641-649):
\* [ok, form, elems, form_key]
RECURSIVE FormElementsUpTo(_, _, _)
FormElementsUpTo(form_key, form, i) ==
    IF i = 0 THEN [ok |-> TRUE, form |-> form, elems |-> EmptyDict, form_key |-> form_key]
    ELSE With(FormElementsUpTo(form_key, form, i - 1),
              LAMBDA prev :
                IF ~prev.ok THEN prev
                ELSE With(get_form_element(prev.form, SubSeq(form_key, 1, i), 1, Len(form_key)),
                          LAMBDA r :
                            [ok |-> r.ok, form |-> r.form, form_key |-> form_key,
                             elems |-> IF r.ok
                                       THEN Put(prev.elems, Join(SubSeq(form_key, 1, i), "."),
                                                r.elem)
                                       ELSE prev.elems]))

FormElements(form_key, form) == FormElementsUpTo(form_key, form, Len(form_key))

\* The constructor as it would be without the test for the fixed expressions
ParamInitWithoutFixed(kw, value, form) ==
    IF value # <<>> /\ Head(value) = FormPrefix
    THEN With(FormElements(Split(Tail(value), "."), form),
              LAMBDA g :
                With([id |-> kw, value |-> value, deleted |-> FALSE,
                      input_type |-> "Form Entry", form_key |-> g.form_key,
                      form_elements |-> g.elems],
                     LAMBDA p1 :
                        IF ~g.ok THEN [ok |-> FALSE, form |-> g.form, p |-> p1]
                        ELSE With(ParseFormType(p1, g.elems[Join(g.form_key, ".")]),
                                  LAMBDA t : [ok |-> t.ok, form |-> g.form, p |-> t.p])))
    ELSE [ok |-> TRUE, form |-> form,
          p |-> [id |-> kw, value |-> value, deleted |-> FALSE,
                 input_type |-> "Hardcoded Value"]]

\* Param.__init__(kw, param_config): value is param_config["input"][kw],
\* form is param_config["form"]["form"], which the walk may change in place.
ParamInit(kw, value, form) ==
    IF \E t \in DOMAIN input_type_values : input_type_values[t] = value
    THEN [ok |-> TRUE, form |-> form,
          p |-> [id |-> kw, value |-> value, deleted |-> FALSE,
                 input_type |-> CHOOSE t \in DOMAIN input_type_values :
                                    input_type_values[t] = value]]
    ELSE IF value # <<>> /\ Head(value) = FormPrefix
    THEN With(FormElements(Split(Tail(value), "."), form),
              LAMBDA g :
                With([id |-> kw, value |-> value, deleted |-> FALSE,
                      input_type |-> "Form Entry", form_key |-> g.form_key,
                      form_elements |-> g.elems],
                     LAMBDA p1 :
                        IF ~g.ok THEN [ok |-> FALSE, form |-> g.form, p |-> p1]
                        ELSE With(ParseFormType(p1, g.elems[Join(g.form_key, ".")]),
                                  LAMBDA t : [ok |-> t.ok, form |-> g.form, p |-> t.p])))
    ELSE [ok |-> TRUE, form |-> form,
          p |-> [id |-> kw, value |-> value, deleted |-> FALSE,
                 input_type |-> "Hardcoded Value"]]

\* Param.form_config
form_config(p) == p.form_elements[Join(p.form_key, ".")]

\* Param.index_reference_type: the position in the catalog, 0 when the
\* lookup raises (positions count from 1 here)
index_reference_type(rid) ==
    LET hits == {i \in DOMAIN list_references :
                    list_references[i].directory = rid \/ list_references[i].name = rid}
    IN IF hits = {} THEN 0 ELSE Min(hits)

\* Param.reference_file_display, for a reference the catalog holds
reference_file_display(rid) == list_references[index_reference_type(rid)].validation

\* Param.index_reference_file (from 1)
index_reference_file(p) ==
    LET disp == reference_file_display(p.reference_id)
        hits == {i \in DOMAIN disp : disp[i] = p.reference_file}
    IN IF hits = {} THEN 1 ELSE Min(hits)

\* Param.serve: [ok, p]; it raises where an index lookup fails, and it
\* writes "value" into a boolean form node (870-873)
ParamServe(p) ==
    IF p.input_type # "Form Entry" THEN [ok |-> TRUE, p |-> p]
    ELSE LET fc == form_config(p)
         IN CASE p.form_type = "User-Provided Value" ->
                    IF ~Has(fc, "type") \/ Get(fc, "type", "") \notin form_value_types
                    THEN [ok |-> FALSE, p |-> p]
                    ELSE IF fc.type = "boolean" /\ ~Has(fc, "value")
                    THEN [ok |-> TRUE,
                          p |-> [p EXCEPT !.form_elements[Join(p.form_key, ".")] =
                                              Put(fc, "value", FALSE)]]
                    ELSE [ok |-> TRUE, p |-> p]
              [] p.form_type = "Cirro Dataset" ->
                    [ok |-> \E i \in DOMAIN list_processes : list_processes[i].id = fc.process,
                     p |-> p]
              [] p.form_type = "Input File" -> [ok |-> TRUE, p |-> p]
              [] OTHER ->
                    [ok |-> index_reference_type(p.reference_id) # 0, p |-> p]

\* workflow_config["input"][k] = v on the insertion-ordered input mapping
InputPut(input, k, v) ==
    IF \E i \in DOMAIN input : input[i].k = k
    THEN [i \in DOMAIN input |-> IF input[i].k = k THEN [k |-> k, v |-> v] ELSE input[i]]
    ELSE Append(input, [k |-> k, v |-> v])

\* The pointer walk of Param.dump (758-770): a node already in the tree is
\* kept, a missing one is taken from the parameter's form_elements
RECURSIVE DumpFormPath(_, _, _, _)
DumpFormPath(pointer, form_key, i, elems) ==
    IF i > Len(form_key) THEN pointer
    ELSE With(Get(pointer, "properties", EmptyDict),
              LAMBDA props :
                Put(pointer, "properties",
                    Put(props, form_key[i],
                        DumpFormPath(IF form_key[i] \in DOMAIN props THEN props[form_key[i]]
                                     ELSE elems[Join(SubSeq(form_key, 1, i), ".")],
                                     form_key, i + 1, elems))))

\* The file attribute a Cirro Reference writes into its form node (739-744)
ReferenceFile(p) ==
    [p EXCEPT !.form_elements[Join(p.form_key, ".")] =
        Put(@, "file",
            <<"**", "/">> \o p.reference_id \o <<"/", "**", "/">>
            \o reference_file_display(p.reference_id)[index_reference_file(p)])]

\* A new parameter gets its form_key and form_elements at dump (746-753)
DumpFormKey(p) ==
    With(IF Has(p, "form_key") THEN p ELSE Put(p, "form_key", <<p.id>>),
         LAMBDA p2 :
            IF Has(p2, "form_elements") THEN p2
            ELSE Put(p2, "form_elements", [k \in {Join(p2.form_key, ".")} |-> EmptyDict]))

\* Param.dump(workflow_config): [ok, p, cfg]
ParamDump(p, cfg) ==
    IF p.deleted THEN [ok |-> TRUE, p |-> p, cfg |-> cfg]
    ELSE IF p.input_type = "Form Entry"
    THEN IF /\ p.form_type = "Cirro Reference"
            /\ \/ index_reference_type(p.reference_id) = 0
               \/ reference_file_display(p.reference_id) = <<>>
         THEN [ok |-> FALSE, p |-> p, cfg |-> cfg]
         ELSE With(DumpFormKey(IF p.form_type = "Cirro Reference" THEN ReferenceFile(p) ELSE p),
                   LAMBDA p3 :
                        [ok |-> TRUE, p |-> p3,
                         cfg |-> [cfg EXCEPT
                                    !.form.form = DumpFormPath(@, p3.form_key, 1, p3.form_elements),
                                    !.input = InputPut(@, p3.id, p3.value)]])
    ELSE With(IF p.input_type \in DOMAIN input_type_values
              THEN [p EXCEPT !.value = input_type_values[p.input_type]]
              ELSE p,
              LAMBDA p1 :
                [ok |-> TRUE, p |-> p1,
                 cfg |-> [cfg EXCEPT !.input = InputPut(@, p1.id, p1.value)]])

\* Param.update_form_type with a switch to Input File that keeps the process
update_form_type_keeps_process(p, val) ==
    LET key == Join(p.form_key, ".")
        fe0 == Put(p.form_elements[key], "type", "string")
        fe1 == CASE val = "User-Provided Value" ->
                       Del(Del(Del(fe0, "file"), "pathType"), "process")
                 [] val = "Cirro Dataset" ->
                       Del(Put(Put(fe0, "pathType", "dataset"), "process", "paired_dnaseq"), "file")
                 [] val = "Input File" ->
                       Put(Put(fe0, "pathType", "dataset"), "file", <<"**", "/", "*">>)
                 [] OTHER ->
                       Put(Put(fe0, "pathType", "references"),
                           "file", <<"**", "/", "genome_fasta", "/", "**", "/", "genome.fasta">>)
    IN [p EXCEPT !.form_elements[key] = fe1]

\* Param.update_form_type
update_form_type(p, val) ==
    LET key == Join(p.form_key, ".")
        fe0 == Put(p.form_elements[key], "type", "string")
        fe1 == CASE val = "User-Provided Value" ->
                       Del(Del(Del(fe0, "file"), "pathType"), "process")
                 [] val = "Cirro Dataset" ->
                       Del(Put(Put(fe0, "pathType", "dataset"), "process", "paired_dnaseq"), "file")
                 [] val = "Input File" ->
                       Del(Put(Put(fe0, "pathType", "dataset"), "file", <<"**", "/", "*">>), "process")
                 [] OTHER ->
                       Put(Put(fe0, "pathType", "references"),
                           "file", <<"**", "/", "genome_fasta", "/", "**", "/", "genome.fasta">>)
    IN [p EXCEPT !.form_elements[key] = fe1]

\* The default a new form value type resets to (1077-1083)
TypeDefault(t) ==
    CASE t = "integer" -> <<"0">>
      [] t = "number" -> <<"0.0">>
      [] t = "string" -> <<>>
      [] t = "boolean" -> <<"False">>
      [] t = "array" -> <<"[]">>

\* Param.update_attribute(kw) with the widget holding val:
\* [save: save_config is reached, ok: nothing raised before it, p]
ParamUpdateAttribute(p, kw, val) ==
    CASE kw = "form_type" ->
            [save |-> TRUE, ok |-> TRUE, p |-> update_form_type(p, val)]
      [] kw \in {"form.title", "form.description", "form.type", "form.default",
                 "form.process", "form.file", "form.multiple"} ->
            LET key == Join(p.form_key, ".")
                sub == CASE kw = "form.title" -> "title"
                         [] kw = "form.description" -> "description"
                         [] kw = "form.type" -> "type"
                         [] kw = "form.default" -> "default"
                         [] kw = "form.process" -> "process"
                         [] kw = "form.file" -> "file"
                         [] kw = "form.multiple" -> "multiple"
                fe == p.form_elements[key]
            IN IF Has(fe, sub) /\ fe[sub] = val
               THEN [save |-> FALSE, ok |-> TRUE, p |-> p]
               ELSE LET fe1 == Put(fe, sub, val)
                        fe2 == IF kw = "form.type" THEN Put(fe1, "default", TypeDefault(val))
                               ELSE fe1
                    IN [save |-> TRUE, ok |-> TRUE,
                        p |-> [p EXCEPT !.form_elements[key] = fe2]]
      [] kw = "reference_id" ->
            \* val is a catalog display name, mapped to its directory
            LET hits == {i \in DOMAIN list_references : list_references[i].name = val}
            IN IF hits = {} THEN [save |-> FALSE, ok |-> FALSE, p |-> p]
               ELSE LET dir == list_references[Min(hits)].directory
                    IN IF dir = p.reference_id THEN [save |-> FALSE, ok |-> TRUE, p |-> p]
                       ELSE [save |-> TRUE, ok |-> TRUE, p |-> [p EXCEPT !.reference_id = dir]]
      [] OTHER ->
            IF p[kw] = val THEN [save |-> FALSE, ok |-> TRUE, p |-> p]
            ELSE LET p1 == [p EXCEPT ![kw] = val]
                 IN IF kw # "input_type" THEN [save |-> TRUE, ok |-> TRUE, p |-> p1]
                    ELSE IF val \in DOMAIN input_type_values
                    THEN [save |-> TRUE, ok |-> TRUE,
                          p |-> [p1 EXCEPT !.value = input_type_values[val]]]
                    ELSE IF val = "Form Entry"
                    THEN [save |-> TRUE, ok |-> TRUE,
                          p |-> Put(Put([p1 EXCEPT !.value = <<FormPrefix>> \o p1.id],
                                        "form_type", "User-Provided Value"),
                                    "form_elements",
                                    [k \in {p1.id} |->
                                        [type |-> "string", default |-> <<>>, title |-> p1.id,
                                         description |-> <<"Description of ">> \o p1.id]])]
                    ELSE [save |-> TRUE, ok |-> TRUE, p |-> [p1 EXCEPT !.value = <<>>]]

(***************************************************************************)
(* ParamsConfig                                                            *)
(***************************************************************************)
RECURSIVE ParamsLoadUpTo(_, _)
ParamsLoadUpTo(cfg, i) ==
    IF i = 0 THEN [ok |-> TRUE, params |-> <<>>, form |-> cfg.form.form]
    ELSE With(ParamsLoadUpTo(cfg, i - 1),
              LAMBDA prev :
                IF ~prev.ok THEN prev
                ELSE With(ParamInit(cfg.input[i].k, cfg.input[i].v, prev.form),
                          LAMBDA r :
                            [ok |-> r.ok,
                             params |-> IF r.ok THEN Append(prev.params, r.p) ELSE prev.params,
                             form |-> r.form]))

\* ParamsConfig.load: one Param per key of config["input"], in order; the
\* first constructor that raises ends the load.  [ok, params, form]
ParamsLoad(cfg) == ParamsLoadUpTo(cfg, Len(cfg.input))

RECURSIVE ParamsServeUpTo(_, _)
ParamsServeUpTo(params, i) ==
    IF i = 0 THEN [ok |-> TRUE, params |-> params]
    ELSE With(ParamsServeUpTo(params, i - 1),
              LAMBDA prev :
                IF ~prev.ok THEN prev
                ELSE With(ParamServe(params[i]),
                          LAMBDA r : [ok |-> r.ok, params |-> [prev.params EXCEPT ![i] = r.p]]))

\* ParamsConfig.serve: [ok, params]
ParamsServe(params) == ParamsServeUpTo(params, Len(params))

RECURSIVE ParamsDumpUpTo(_, _, _)
ParamsDumpUpTo(params, cfg, i) ==
    IF i = 0 THEN [ok |-> TRUE, params |-> params, cfg |-> cfg]
    ELSE With(ParamsDumpUpTo(params, cfg, i - 1),
              LAMBDA prev :
                IF ~prev.ok THEN prev
                ELSE With(ParamDump(params[i], prev.cfg),
                          LAMBDA r : [ok |-> r.ok, cfg |-> r.cfg,
                                      params |-> [prev.params EXCEPT ![i] = r.p]]))

\* ParamsConfig.dump: [ok, params, cfg]
ParamsDump(params, cfg) == ParamsDumpUpTo(params, cfg, Len(params))

\* The while loop of ParamsConfig.add_parameter (1226-1228): param_ix
\* counts up from n while param_<param_ix> is the id of a parameter
RECURSIVE param_ix(_, _)
param_ix(ids, n) ==
    IF <<"param_", Str(n)>> \in ids THEN param_ix(ids, n + 1) ELSE n

\* The id as it would be if the parameters were only counted
NewParamIdByCount(params) == <<"param_", Str(Len(params) + 1)>>

\* ParamsConfig.add_parameter: the id param_N of the new parameter
NewParamId(params) ==
    <<"param_", Str(param_ix({params[i].id : i \in DOMAIN params}, 1))>>

add_parameter(params) ==
    Append(params, ParamInit(NewParamId(params), <<>>, EmptyDict).p)

(***************************************************************************)
(* OutputConfig: one tabular output entry.  fc is the file_config dict,    *)
(* which the element shares with the document it was loaded from.          *)
(***************************************************************************)
commands == {"hot.Parquet"}

source_prefix == "$data_directory/"

delimiters == [k \in {"Tab", "Comma"} |-> IF k = "Tab" THEN "\t" ELSE ","]

\* The atoms that [A-Za-z]+ matches whole
AlphaAtoms == {"Sample", "Lane"}

Manifest == [command |-> "hot.Manifest", params |-> EmptyDict]

\* OutputConfig.source: the path template without the fixed prefix
source(fc) == DropFirst(Get(fc.params, "source", <<source_prefix>>), 1)

\* The target as it would be with the '/' of the source kept
target_with_slashes(fc) == source(fc) \o <<".parquet">>

\* OutputConfig.target
target(fc) == Replace(source(fc), "/", "_") \o <<".parquet">>

\* re.findall(TOKEN_REGEX, src): the token names, left to right
RECURSIVE findall_tokens(_)
findall_tokens(src) ==
    IF Len(src) < 3 THEN <<>>
    ELSE IF src[1] = "[" /\ src[2] \in AlphaAtoms /\ src[3] = "]"
    THEN <<src[2]>> \o findall_tokens(DropFirst(src, 3))
    ELSE findall_tokens(Tail(src))

tokens(fc) == findall_tokens(source(fc))

\* re.sub(TOKEN_REGEX, "(.*)", src)
RECURSIVE sub_tokens(_)
sub_tokens(src) ==
    IF src = <<>> THEN <<>>
    ELSE IF Len(src) >= 3 /\ src[1] = "[" /\ src[2] \in AlphaAtoms /\ src[3] = "]"
    THEN <<"(.*)">> \o sub_tokens(DropFirst(src, 3))
    ELSE <<src[1]>> \o sub_tokens(Tail(src))

\* re.match of pattern pat[i..] at text[j..]; "(.*)" takes any run of text
RECURSIVE regex_match(_, _, _, _)
regex_match(pat, i, text, j) ==
    IF i > Len(pat) THEN TRUE
    ELSE IF pat[i] = "(.*)"
    THEN \E k \in j..(Len(text) + 1) : regex_match(pat, i + 1, text, k)
    ELSE j <= Len(text) /\ text[j] = pat[i] /\ regex_match(pat, i + 1, text, j + 1)

\* re.search(pat, text) is not None
regex_search(pat, text) == \E j \in 1..(Len(text) + 1) : regex_match(pat, 1, text, j)

\* OutputConfig.matches_regex(src): this entry's source matches src's pattern
matches_regex(fc, src) == regex_search(sub_tokens(src), source(fc))

\* OutputMeltConfig.__init__: the attributes read from the melt dict
MeltInit(fc) ==
    IF ~Has(fc, "melt") THEN [enabled |-> FALSE]
    ELSE LET dat == fc.melt
             keys == {<<k1, k2>> \in {"key", "value"} \X {"name", "desc"} :
                          Has(dat, k1) /\ Has(dat[k1], k2)}
             attr(k) == CASE k = "key_name" -> dat.key.name
                          [] k = "key_desc" -> dat.key.desc
                          [] k = "value_name" -> dat.value.name
                          [] k = "value_desc" -> dat.value.desc
             names == {CASE kk = <<"key", "name">> -> "key_name"
                         [] kk = <<"key", "desc">> -> "key_desc"
                         [] kk = <<"value", "name">> -> "value_name"
                         [] kk = <<"value", "desc">> -> "value_desc" : kk \in keys}
         IN [k \in names \cup {"enabled"} |-> IF k = "enabled" THEN TRUE ELSE attr(k)]

\* OutputMeltConfig.dump
MeltDump(melt) ==
    [key |-> [name |-> Get(melt, "key_name", <<>>), desc |-> Get(melt, "key_desc", <<>>)],
     value |-> [name |-> Get(melt, "value_name", <<>>), desc |-> Get(melt, "value_desc", <<>>)]]

\* The name and description of a token: from the last entry of params["concat"]
\* that names it, else the token itself
ConcatEntry(prior, t) ==
    With({i \in DOMAIN prior : prior[i].token = t},
         LAMBDA hits :
            IF hits = {} THEN [token |-> t, name |-> <<t>>, desc |-> <<t>>]
            ELSE With(prior[CHOOSE i \in hits : \A j \in hits : j <= i],
                      LAMBDA e : [token |-> t, name |-> Get(e, "name", <<t>>),
                                  desc |-> Get(e, "desc", <<t>>)]))

\* OutputConfig.parse_concat_tokens: one entry per token occurrence, its
\* name and description from params["concat"] when an entry is there
parse_concat_tokens(fc) ==
    With(tokens(fc),
         LAMBDA toks :
            [i \in DOMAIN toks |-> ConcatEntry(Get(fc.params, "concat", <<>>), toks[i])])

\* The minimal attributes __init__ writes into file_config (1489-1495)
MinimalAttributes(fc) ==
    With(IF Has(fc, "params") THEN fc ELSE Put(fc, "params", EmptyDict),
         LAMBDA fc1 :
            With(IF Has(fc1.params, "cols") THEN fc1.params ELSE Put(fc1.params, "cols", <<>>),
                 LAMBDA pr1 :
                    [fc1 EXCEPT !.params =
                        IF Has(pr1, "name") THEN pr1 ELSE Put(pr1, "name", <<"Output File">>)]))

\* OutputConfig.__init__ for a hot.Parquet entry: [fc, out]; the minimal
\* attributes are written into fc itself
OutputInit(ref, fc) ==
    With(MinimalAttributes(fc),
         LAMBDA fc2 :
            [fc |-> fc2,
             out |-> [ref |-> ref,
                      deleted |-> FALSE,
                      delimiter |-> Get(Get(Get(fc2.params, "read_csv", EmptyDict),
                                            "parse", EmptyDict), "delimiter", ","),
                      columns |-> [i \in DOMAIN fc2.params.cols |-> [deleted |-> FALSE]],
                      melt |-> MeltInit(fc2),
                      concat |-> parse_concat_tokens(fc2)]])

\* OutputConfig.serve raises on a delimiter the selectbox does not offer,
\* and on an enabled melt with a missing text attribute
OutputServeOk(out) ==
    /\ out.delimiter \in {delimiters[k] : k \in DOMAIN delimiters}
    /\ out.melt.enabled =>
          {"key_name", "key_desc", "value_name", "value_desc"} \subseteq DOMAIN out.melt

\* zip(self.columns, cols) without the deleted columns (1786-1794)
KeptCols(columns, cols) ==
    SelectIdx(SubSeq(cols, 1, IF Len(columns) < Len(cols) THEN Len(columns) ELSE Len(cols)),
              LAMBDA i : ~columns[i].deleted)

\* OutputConfig.dump: writes into file_config and returns it
OutputDump(out, fc) ==
    With([fc EXCEPT !.params =
             Put(Put(Put(fc.params, "target", target(fc)),
                     "read_csv", [parse |-> [delimiter |-> out.delimiter]]),
                 "cols", KeptCols(out.columns, fc.params.cols))],
         LAMBDA fc1 :
            With(IF out.melt.enabled THEN Put(fc1, "melt", MeltDump(out.melt))
                 ELSE Del(fc1, "melt"),
                 LAMBDA fc2 :
                    IF Len(out.concat) > 0 THEN Put(fc2, "concat", out.concat) ELSE fc2))

(***************************************************************************)
(* OutputsConfig                                                           *)
(***************************************************************************)
\* The same without the test that leaves entry i itself out
MatchedByOrSelf(outputs, fls, i) ==
    {j \in DOMAIN outputs :
        matches_regex(fls[outputs[j].ref], source(fls[outputs[i].ref]))}

\* The entries whose source the pattern of entry i matches (1880-1893)
MatchedBy(outputs, fls, i) ==
    {j \in DOMAIN outputs :
        i # j /\ matches_regex(fls[outputs[j].ref], source(fls[outputs[i].ref]))}

\* The property as it would be if no entry were ever found matched
matching_nothing(outputs, fls) == {}

\* OutputsConfig.matching_regex over the loaded outputs: the positions of
\* the entries matched by the first token-bearing entry that matches any
matching_regex(outputs, fls) ==
    With({i \in DOMAIN outputs :
            Len(tokens(fls[outputs[i].ref])) > 0 /\ MatchedBy(outputs, fls, i) # {}},
         LAMBDA firsts : IF firsts = {} THEN {} ELSE MatchedBy(outputs, fls, Min(firsts)))

\* The filter loop of OutputsConfig.load (1814-1819)
RECURSIVE filter_matching(_, _)
filter_matching(outputs, fls) ==
    With(matching_regex(outputs, fls),
         LAMBDA m :
            IF m = {} THEN outputs
            ELSE filter_matching(SelectIdx(outputs, LAMBDA i : i \notin m), fls))

\* How many times the body of the filter loop runs
RECURSIVE filter_passes(_, _)
filter_passes(outputs, fls) ==
    With(matching_regex(outputs, fls),
         LAMBDA m :
            IF m = {} THEN 0
            ELSE 1 + filter_passes(SelectIdx(outputs, LAMBDA i : i \notin m), fls))

\* One OutputConfig per entry with a known command (1808-1812)
RECURSIVE OutputsInitUpTo(_, _, _)
OutputsInitUpTo(cmds, fls, i) ==
    IF i = 0 THEN [outputs |-> <<>>, files |-> fls]
    ELSE With(OutputsInitUpTo(cmds, fls, i - 1),
              LAMBDA prev :
                IF Get(prev.files[cmds[i]], "command", "") \notin commands THEN prev
                ELSE With(OutputInit(cmds[i], prev.files[cmds[i]]),
                          LAMBDA r : [outputs |-> Append(prev.outputs, r.out),
                                      files |-> [prev.files EXCEPT ![cmds[i]] = r.fc]]))

\* OutputsConfig.load: [outputs, files]
OutputsLoad(cfg, fls) ==
    With(OutputsInitUpTo(Get(cfg.output, "commands", <<>>), fls,
                         Len(Get(cfg.output, "commands", <<>>))),
         LAMBDA g : [outputs |-> filter_matching(g.outputs, g.files), files |-> g.files])

OutputsServeOk(outputs) == \A i \in DOMAIN outputs : OutputServeOk(outputs[i])

RECURSIVE OutputsDumpUpTo(_, _, _)
OutputsDumpUpTo(outputs, fls, i) ==
    IF i = 0 THEN [cmds |-> <<>>, files |-> fls]
    ELSE With(OutputsDumpUpTo(outputs, fls, i - 1),
              LAMBDA prev :
                IF outputs[i].deleted THEN prev
                ELSE [cmds |-> Append(prev.cmds, outputs[i].ref),
                      files |-> [prev.files EXCEPT ![outputs[i].ref] =
                                    OutputDump(outputs[i], @)]])

\* The dump as it would be with the manifest marker before the tables
OutputsDumpMarkerFirst(outputs, cfg, fls) ==
    With(OutputsDumpUpTo(outputs, fls, Len(outputs)),
         LAMBDA g : [cfg |-> [cfg EXCEPT !.output = [commands |-> <<0>> \o g.cmds]],
                     files |-> g.files])

\* OutputsConfig.dump: [cfg, files]; file reference 0 is the manifest marker
OutputsDump(outputs, cfg, fls) ==
    With(OutputsDumpUpTo(outputs, fls, Len(outputs)),
         LAMBDA g : [cfg |-> [cfg EXCEPT !.output = [commands |-> Append(g.cmds, 0)]],
                     files |-> g.files])

(***************************************************************************)
(* WorkflowConfig.  A world W is the session state with its two heaps and  *)
(* the configuration elements of the last populate_form:                   *)
(*   [config, history, future, docs, files, elements]                      *)
(* config = NoDoc when "config" is not in the session state.               *)
(***************************************************************************)
NoDoc == 0

DocIds == 1..MaxDocs

FileIds == 1..MaxFiles

Null == EmptyDict

\* No download text was rendered
NoText == EmptyDict

\* WorkflowConfig.empty_config
empty_config ==
    [dynamo |-> [code |-> EmptyDict],
     form |-> [form |-> EmptyDict, ui |-> EmptyDict],
     input |-> <<>>,
     output |-> EmptyDict,
     compute |-> <<>>,
     preprocess |-> <<>>]

\* WorkflowConfig.load_config: the committed document, or a default that
\* is not stored
load_config(W) == IF W.config = NoDoc THEN empty_config ELSE W.docs[W.config]

LiveDocs(W) == ({W.config} \cup Range(W.history) \cup Range(W.future)) \ {NoDoc}

DocFiles(doc) == Range(Get(doc.output, "commands", <<>>)) \ {0}

LiveFiles(W) ==
    UNION {DocFiles(W.docs[d]) : d \in LiveDocs(W)}
    \cup {W.elements.outputs[i].ref : i \in DOMAIN W.elements.outputs}

FreeDocs(W) == DocIds \ LiveDocs(W)

FreeFiles(W) == FileIds \ LiveFiles(W)

\* Unreachable objects are dropped from the heaps
Collect(W) ==
    [W EXCEPT !.docs = [d \in DocIds |-> IF d \in LiveDocs(W) THEN W.docs[d] ELSE Null],
              !.files = [f \in 0..MaxFiles |->
                            IF f = 0 \/ f \in LiveFiles(W) THEN W.files[f] ELSE Null]]

\* The structural value of an object graph: file references replaced by
\* the dicts they point to, the input mapping as a dict
InputValue(input) ==
    [k \in {input[i].k : i \in DOMAIN input} |->
        input[CHOOSE i \in DOMAIN input : input[i].k = k].v]

DocValue(doc, fls) ==
    [doc EXCEPT !.input = InputValue(doc.input),
                !.output = IF Has(doc.output, "commands")
                           THEN [commands |-> [i \in DOMAIN doc.output.commands |->
                                                  fls[doc.output.commands[i]]]]
                           ELSE doc.output]

View(W, d) == DocValue(W.docs[d], W.files)

\* WorkflowConfig.format_config on the elements E: [ok, cfg, files, elements].
\* An element whose load never ran has no attributes, and its dump raises.
format_config(E, fls) ==
    IF E.stage < 2
    THEN [ok |-> FALSE, cfg |-> SourceDump(E.src, empty_config), files |-> fls, elements |-> E]
    ELSE With(ParamsDump(E.params, SourceDump(E.src, empty_config)),
              LAMBDA pd :
                IF ~pd.ok \/ E.stage < 3
                THEN [ok |-> FALSE, cfg |-> pd.cfg, files |-> fls,
                      elements |-> [E EXCEPT !.params = pd.params]]
                ELSE With(OutputsDump(E.outputs, pd.cfg, fls),
                          LAMBDA od :
                            [ok |-> E.stage = 5,
                             cfg |-> [od.cfg EXCEPT !.preprocess = E.preprocess,
                                                    !.compute = E.compute],
                             files |-> od.files,
                             elements |-> [E EXCEPT !.params = pd.params]]))

\* The elements when populate_form stopped after SourceConfig
SourceOnly(src) ==
    [stage |-> 1, src |-> src, params |-> <<>>, outputs |-> <<>>,
     preprocess |-> <<>>, compute |-> <<>>, text |-> NoText]

\* ParamsConfig.load writes the form nodes it makes up into the document
StoreForm(W, form) ==
    IF W.config = NoDoc THEN W ELSE [W EXCEPT !.docs[W.config].form.form = form]

\* The rest of populate_form once ParamsConfig is served: OutputsConfig,
\* then PreprocessConfig and ComputeConfig
PopulateOutputs(W, src, params, cfg) ==
    With(OutputsLoad(cfg, W.files),
         LAMBDA ol :
            With(OutputsServeOk(ol.outputs),
                 LAMBDA served :
                    [W EXCEPT !.files = ol.files,
                              !.elements = [stage |-> IF served THEN 5 ELSE 3,
                                            src |-> src, params |-> params,
                                            outputs |-> ol.outputs,
                                            preprocess |-> IF served THEN cfg.preprocess ELSE <<>>,
                                            compute |-> IF served THEN cfg.compute ELSE <<>>,
                                            text |-> NoText]]))

\* The rest of populate_form once SourceConfig is served
PopulateParams(W, src, cfg) ==
    With(ParamsLoad(cfg),
         LAMBDA pl :
            IF ~pl.ok THEN [StoreForm(W, pl.form) EXCEPT !.elements = SourceOnly(src)]
            ELSE With(ParamsServe(pl.params),
                      LAMBDA ps :
                        IF ~ps.ok
                        THEN [StoreForm(W, pl.form) EXCEPT
                                !.elements = [SourceOnly(src) EXCEPT !.stage = 2,
                                                                     !.params = ps.params]]
                        ELSE PopulateOutputs(StoreForm(W, pl.form), src, ps.params,
                                             [cfg EXCEPT !.form.form = pl.form])))

\* WorkflowConfig.populate_form: load and serve every element in order
\* (Source, Params, Outputs, Preprocess, Compute).  stage tells how far it
\* came: 1 Source loaded, 2 Params loaded, 3 Outputs loaded, 5 all.
populate_form(W) ==
    With(load_config(W),
         LAMBDA cfg :
            With(SourceLoad(cfg),
                 LAMBDA src :
                    IF ~SourceServeOk(src) THEN [W EXCEPT !.elements = SourceOnly(src)]
                    ELSE PopulateParams(W, src, cfg)))

\* The order of str on the ids that occur: their atoms, smallest first
SortKeyAtoms == <<".", "1", "2", "3", "4", "5", "a", "b", "param_", "ref">>

AtomRank(a) == CHOOSE i \in DOMAIN SortKeyAtoms : SortKeyAtoms[i] = a

RECURSIVE StrLess(_, _)
StrLess(a, b) ==
    IF a = <<>> THEN b # <<>>
    ELSE IF b = <<>> THEN FALSE
    ELSE IF Head(a) = Head(b) THEN StrLess(Tail(a), Tail(b))
    ELSE AtomRank(Head(a)) < AtomRank(Head(b))

\* json.dumps(val, sort_keys=True) of the input mapping: its pairs by key
SortKeys(input) ==
    [i \in DOMAIN input |->
        input[CHOOSE j \in DOMAIN input :
                  Cardinality({m \in DOMAIN input : StrLess(input[m].k, input[j].k)}) = i - 1]]

\* The text of the six artifacts, by section (2157-2166): a str section
\* as it is, any other through json.dumps, which also writes out the
\* dicts the commands list refers to
ExportText(cfg, fls) ==
    [dynamo |-> cfg.dynamo,
     form |-> cfg.form,
     input |-> SortKeys(cfg.input),
     output |-> [commands |-> [i \in DOMAIN cfg.output.commands |->
                                  fls[cfg.output.commands[i]]]],
     compute |-> cfg.compute,
     preprocess |-> cfg.preprocess]

\* The structural value of the document the artifacts hold
TextValue(text) ==
    IF text = NoText THEN Null ELSE [text EXCEPT !.input = InputValue(@)]

\* The file name of a section (2158-2163)
file_name(kw) ==
    (IF kw = "preprocess" THEN <<>> ELSE <<"process-">>)
    \o <<kw>>
    \o (IF kw = "preprocess" THEN <<".py">>
        ELSE IF kw = "compute" THEN <<".config">> ELSE <<".json">>)

\* WorkflowConfig.populate_downloads: format_config() once more, for the
\* download buttons; the elements' dump writes into the shared file dicts
populate_downloads(W) ==
    With(format_config(W.elements, W.files),
         LAMBDA fc :
            [W EXCEPT !.files = fc.files,
                      !.elements = [fc.elements EXCEPT !.text =
                                       IF fc.ok THEN ExportText(fc.cfg, fc.files)
                                       ELSE NoText]])

\* WorkflowConfig.reset
reset(W) ==
    With(populate_form(W),
         LAMBDA W1 : IF W1.elements.stage = 5 THEN populate_downloads(W1) ELSE W1)

\* WorkflowConfig.save_history
save_history(W) ==
    IF /\ W.config # NoDoc
       /\ \/ W.history = <<>>
          \/ View(W, W.history[1]) # View(W, W.config)
    THEN [W EXCEPT !.history = <<W.config>> \o W.history, !.future = <<>>]
    ELSE W

\* What save_config does after save_history: the new document is a new object
StoreConfig(W) ==
    With(format_config(W.elements, W.files),
         LAMBDA fc :
            IF ~fc.ok
            THEN [ok |-> FALSE, W |-> [W EXCEPT !.files = fc.files, !.elements = fc.elements]]
            ELSE [ok |-> TRUE,
                  W |-> [W EXCEPT !.config = Min(FreeDocs(W)),
                                  !.docs[Min(FreeDocs(W))] = fc.cfg,
                                  !.files = fc.files, !.elements = fc.elements]])

\* WorkflowConfig.save_config: [ok, W]
save_config(W) == StoreConfig(save_history(W))

\* The script run that follows a callback: the elements are loaded again
Rerun(W) == With(reset(W), LAMBDA W1 : Collect(W1))

\* A callback h is [ran, ok, W, then]: what it did up to the point where
\* it returned, raised (ok is FALSE) or reached its tail, and the tail
\* that is still to run: "save" for save_config() and reset(), "reset"
\* for reset() alone, "none".  Run(h) runs the tail and the script run
\* that follows the callback: [ran, ok, W].
\* Besides [ran, ok, W] the run tells why it raised ("callback" or "dump"),
\* the document save_config committed as format_config produced it, and
\* the document the elements dump when reset() has loaded that one.
RunTail(h) ==
    With(IF h.then = "save" THEN save_config(h.W) ELSE [ok |-> h.ok, W |-> h.W],
         LAMBDA sc :
            With(IF sc.ok /\ h.then # "none" THEN reset(sc.W) ELSE sc.W,
                 LAMBDA W3 :
                    [ran |-> h.ran, ok |-> sc.ok, W |-> W3,
                     why |-> IF sc.ok THEN "" ELSE IF h.ok THEN "dump" ELSE "callback",
                     dumped |-> IF h.then = "save" /\ sc.ok
                                THEN View(sc.W, sc.W.config) ELSE Null,
                     again |-> IF h.then = "save" /\ sc.ok
                               THEN TextValue(W3.elements.text) ELSE Null]))

Run(h) == With(RunTail(h), LAMBDA r : [r EXCEPT !.W = Rerun(r.W)])

\* WorkflowConfig.undo
undo(W) ==
    IF W.config = NoDoc THEN [ran |-> TRUE, ok |-> FALSE, W |-> W, then |-> "none"]
    ELSE IF W.history = <<>>
    THEN [ran |-> TRUE, ok |-> FALSE, then |-> "none",
          W |-> [W EXCEPT !.future = <<W.config>> \o W.future]]
    ELSE [ran |-> TRUE, ok |-> TRUE, then |-> "reset",
          W |-> [W EXCEPT !.future = <<W.config>> \o W.future,
                          !.config = Head(W.history),
                          !.history = Tail(W.history)]]

\* WorkflowConfig.redo
redo(W) ==
    IF W.config = NoDoc THEN [ran |-> TRUE, ok |-> FALSE, W |-> W, then |-> "none"]
    ELSE IF W.future = <<>>
    THEN [ran |-> TRUE, ok |-> FALSE, then |-> "none",
          W |-> [W EXCEPT !.history = <<W.config>> \o W.history]]
    ELSE [ran |-> TRUE, ok |-> TRUE, then |-> "reset",
          W |-> [W EXCEPT !.history = <<W.config>> \o W.history,
                          !.config = Head(W.future),
                          !.future = Tail(W.future)]]

(***************************************************************************)
(* The callbacks.  Each returns [ran, ok, W, then]: ran is FALSE on the    *)
(* early return of an unchanged value, ok is FALSE when the callback       *)
(* raised, then is the tail it still has to run.                           *)
(***************************************************************************)
NoChange(W) == [ran |-> FALSE, ok |-> TRUE, W |-> W, then |-> "none"]

Raised(W) == [ran |-> TRUE, ok |-> FALSE, W |-> W, then |-> "none"]

\* save_config() and reset() at the end of a callback
Commit(W) == [ran |-> TRUE, ok |-> TRUE, W |-> W, then |-> "save"]

\* SourceConfig.update_value
update_value(W, kw, val) ==
    IF W.elements.src[kw] = val THEN NoChange(W)
    ELSE Commit([W EXCEPT !.elements.src[kw] = val])

\* Param.update_attribute on the i-th parameter
param_update_attribute(W, i, kw, val) ==
    With(ParamUpdateAttribute(W.elements.params[i], kw, val),
         LAMBDA r :
            IF ~r.ok THEN Raised(W)
            ELSE IF ~r.save THEN NoChange(W)
            ELSE Commit([W EXCEPT !.elements.params[i] = r.p]))

\* UIElement.remove of the first parameter
param_remove_first(W, i) == Commit([W EXCEPT !.elements.params[1].deleted = TRUE])

\* UIElement.remove on the i-th parameter
param_remove(W, i) == Commit([W EXCEPT !.elements.params[i].deleted = TRUE])

\* ParamsConfig.add_parameter
params_add_parameter(W) == Commit([W EXCEPT !.elements.params = add_parameter(@)])

\* The value update_attribute stores: the source is kept with its prefix
AttributeValue(kw, v) ==
    IF kw = "source" THEN <<source_prefix>> \o Strip(v, "/") ELSE v

\* OutputConfig.update_attribute on the i-th output, pointer = params
output_update_attribute(W, i, kw, v) ==
    IF /\ Has(W.files[W.elements.outputs[i].ref].params, kw)
       /\ W.files[W.elements.outputs[i].ref].params[kw] = AttributeValue(kw, v)
    THEN NoChange(W)
    ELSE Commit([W EXCEPT !.files[W.elements.outputs[i].ref].params =
                              Put(@, kw, AttributeValue(kw, v))])

\* OutputConfig.update_delimiter
update_delimiter(W, i, name) ==
    IF delimiters[name] = W.elements.outputs[i].delimiter THEN NoChange(W)
    ELSE Commit([W EXCEPT !.elements.outputs[i].delimiter = delimiters[name]])

NewColumn == [col |-> <<"New Column">>, name |-> <<"New Column">>, desc |-> <<"New Column">>]

\* OutputConfig.add_column
add_column(W, i) ==
    Commit([W EXCEPT !.files[W.elements.outputs[i].ref].params.cols = Append(@, NewColumn),
                     !.elements.outputs[i].columns = Append(@, [deleted |-> FALSE])])

\* OutputColumnConfig.update_attribute on column c of the i-th output
column_update_attribute(W, i, c, kw, val) ==
    IF /\ Has(W.files[W.elements.outputs[i].ref].params.cols[c], kw)
       /\ W.files[W.elements.outputs[i].ref].params.cols[c][kw] = val
    THEN NoChange(W)
    ELSE Commit([W EXCEPT !.files[W.elements.outputs[i].ref].params.cols[c] =
                              Put(@, kw, val)])

\* OutputColumnConfig.remove
column_remove(W, i, c) ==
    Commit([W EXCEPT !.elements.outputs[i].columns[c].deleted = TRUE])

\* OutputConcatConfig.update_attribute on token t of the i-th output
concat_update_attribute(W, i, t, kw, val) ==
    IF W.elements.outputs[i].concat[t][kw] = val THEN NoChange(W)
    ELSE Commit([W EXCEPT !.elements.outputs[i].concat[t][kw] = val])

\* UIElement.remove on the i-th output
output_remove(W, i) == Commit([W EXCEPT !.elements.outputs[i].deleted = TRUE])

\* OutputsConfig.add_output_file: the new file_config is a new dict
add_output_file(W) ==
    With(OutputInit(Min(FreeFiles(W)),
                    [command |-> "hot.Parquet",
                     params |-> [name |-> <<"Output File", " ",
                                            Str(Len(W.elements.outputs) + 1)>>]]),
         LAMBDA r :
            Commit([W EXCEPT !.files[r.out.ref] = r.fc,
                             !.elements.outputs = Append(@, r.out)]))

\* The Refresh button: reset()
refresh(W) == [ran |-> TRUE, ok |-> TRUE, W |-> W, then |-> "reset"]

\* WorkflowConfig.logout: clears the session state, then commits the dump
\* of the elements as they are
logout(W) ==
    With(format_config(W.elements, W.files),
         LAMBDA fc :
            [ran |-> TRUE, ok |-> fc.ok, then |-> "none",
             W |-> [W EXCEPT !.history = <<>>, !.future = <<>>,
                             !.config = IF fc.ok THEN Min(DocIds) ELSE NoDoc,
                             !.docs = IF fc.ok THEN [@ EXCEPT ![Min(DocIds)] = fc.cfg] ELSE @,
                             !.files = fc.files, !.elements = fc.elements]])

IsManifest(fc) == Get(fc, "command", "") = Manifest.command

\* The n-th smallest member of a set of numbers
Nth(S, n) == CHOOSE x \in S : Cardinality({y \in S : y < x}) = n - 1

\* The file reference of the i-th entry of a loaded commands list
EntryRef(cmds, free, i) ==
    IF IsManifest(cmds[i]) THEN 0
    ELSE Nth(free, Cardinality({j \in 1..i : ~IsManifest(cmds[j])}))

\* json.load of process-output.json: every entry of the commands list is
\* a new dict (the manifest marker is file reference 0)
LoadCommands(cmds, fls, free) ==
    [output |-> [commands |-> [i \in DOMAIN cmds |-> EntryRef(cmds, free, i)]],
     files |-> [f \in DOMAIN fls |->
                   IF \E i \in DOMAIN cmds : ~IsManifest(cmds[i]) /\ EntryRef(cmds, free, i) = f
                   THEN cmds[CHOOSE i \in DOMAIN cmds :
                                ~IsManifest(cmds[i]) /\ EntryRef(cmds, free, i) = f]
                   ELSE fls[f]]]

LoadOutput(content, fls, free) ==
    IF Has(content, "commands") THEN LoadCommands(content.commands, fls, free)
    ELSE [output |-> content, files |-> fls]

NewEntries(content) ==
    Cardinality({i \in DOMAIN Get(content, "commands", <<>>) : ~IsManifest(content.commands[i])})

\* The same with the content of process-input.json left unread
LoadJsonWithoutInput(g, key, content, free) ==
    IF key \notin {<<"dynamo">>, <<"form">>, <<"input">>, <<"output">>}
    THEN [g EXCEPT !.ok = FALSE]
    ELSE IF key = <<"output">>
    THEN With(LoadOutput(content, g.files, free),
              LAMBDA r : [g EXCEPT !.doc.output = r.output, !.files = r.files,
                                   !.modified = TRUE])
    ELSE IF key = <<"input">> THEN [g EXCEPT !.modified = TRUE]
    ELSE [g EXCEPT !.doc[key[1]] = content, !.modified = TRUE]

\* config[key] = json.load(file) for a process-*.json file (2294-2298)
LoadJson(g, key, content, free) ==
    IF key \notin {<<"dynamo">>, <<"form">>, <<"input">>, <<"output">>}
    THEN [g EXCEPT !.ok = FALSE]
    ELSE IF key = <<"output">>
    THEN With(LoadOutput(content, g.files, free),
              LAMBDA r : [g EXCEPT !.doc.output = r.output, !.files = r.files,
                                   !.modified = TRUE])
    ELSE [g EXCEPT !.doc[key[1]] = content, !.modified = TRUE]

\* One pass of the loop of load_from_uploaded_files (2284-2298) over a
\* file: g is [ok, modified, doc, files]
LoadFile(g, file, free) ==
    IF Head(file.name) # "process-"
    THEN IF file.name # <<"preprocess", ".py">> THEN [g EXCEPT !.ok = FALSE]
         ELSE [g EXCEPT !.doc.preprocess = file.content, !.modified = TRUE]
    ELSE IF file.name = <<"process-", "compute", ".config">>
    THEN [g EXCEPT !.doc.compute = file.content, !.modified = TRUE]
    ELSE IF file.name[Len(file.name)] # ".json" THEN g
    ELSE LoadJson(g, SubSeq(file.name, 2, Len(file.name) - 1), file.content, free)

\* The loop over the first i files of the batch
RECURSIVE LoadFilesUpTo(_, _, _)
LoadFilesUpTo(W, batch, i) ==
    IF i = 0
    THEN [ok |-> TRUE, modified |-> FALSE, files |-> W.files,
          doc |-> IF W.config = NoDoc THEN empty_config ELSE W.docs[W.config]]
    ELSE With(LoadFilesUpTo(W, batch, i - 1),
              LAMBDA g : IF ~g.ok THEN g ELSE LoadFile(g, batch[i], FreeFiles(W)))

\* The sections read so far are in the committed document itself
StoreLoaded(W, g) ==
    IF W.config = NoDoc THEN W
    ELSE [W EXCEPT !.docs[W.config] = g.doc, !.files = g.files]

\* session_state["config"] = config after save_history() (2300-2304)
CommitLoaded(W, g) ==
    IF W.config # NoDoc THEN W
    ELSE [W EXCEPT !.config = Min(FreeDocs(W)), !.docs[Min(FreeDocs(W))] = g.doc,
                   !.files = g.files]

\* WorkflowConfig.load_from_uploaded_files with the uploader holding batch:
\* the sections are written into the committed document itself
load_from_uploaded_files(W, batch) ==
    With(LoadFilesUpTo(W, batch, Len(batch)),
         LAMBDA g :
            IF ~g.ok THEN Raised(StoreLoaded(W, g))
            ELSE IF ~g.modified THEN NoChange(W)
            ELSE [ran |-> TRUE, ok |-> TRUE, then |-> "reset",
                  W |-> CommitLoaded(save_history(StoreLoaded(W, g)), g)])

(***************************************************************************)
(* What the user may upload: the artifacts of the last download, whole or  *)
(* in part, files the application does not know, and hand-written          *)
(* artifacts.                                                              *)
(***************************************************************************)
Sections == <<"dynamo", "form", "input", "output", "compute", "preprocess">>

Artifact(text, kw) == [name |-> file_name(kw), content |-> text[kw]]

Unexpected == [name |-> <<"notes", ".txt">>, content |-> <<>>]

Ignored == [name |-> <<"process-", "readme", ".txt">>, content |-> <<>>]

\* a reference the catalog does not hold
HandForm ==
    [name |-> file_name("form"),
     content |-> [form |-> [properties |->
                     [k \in {<<"ref">>} |-> [type |-> "string", pathType |-> "references",
                                         file |-> <<"**", "/", "unknown", "/", "**", "/", "x.fa">>]]],
                  ui |-> EmptyDict]]

HandInput ==
    [name |-> file_name("input"),
     content |-> <<[k |-> <<"ref">>, v |-> <<FormPrefix, "ref">>]>>]

\* an entry whose delimiter the selectbox does not offer
HandOutput ==
    [name |-> file_name("output"),
     content |-> [commands |->
        <<[command |-> "hot.Parquet",
           params |-> [name |-> <<"Table">>, source |-> <<source_prefix, "t", ".csv">>,
                       cols |-> <<>>,
                       read_csv |-> [parse |-> [delimiter |-> ";"]]]],
          Manifest>>]]

AllArtifacts(dl) == [i \in DOMAIN Sections |-> Artifact(dl, Sections[i])]

\* The new dicts a batch brings
BatchEntries(batch) ==
    IF \A i \in DOMAIN batch : batch[i].name # file_name("output") THEN 0
    ELSE NewEntries(batch[CHOOSE i \in DOMAIN batch : batch[i].name = file_name("output")].content)

(***************************************************************************)
(* Bootstrapping the outputs from the files of an example dataset          *)
(***************************************************************************)
Tab == delimiters["Tab"]

Comma == delimiters["Comma"]

\* What read_csv(sep, nrows=5) gives: the columns, or a ValueError
Table(columns) == [raised |-> FALSE, columns |-> columns]

Unreadable == [raised |-> TRUE, columns |-> <<>>]

ExampleFile(name, tab, comma) ==
    [name |-> name, read |-> [d \in {Tab, Comma} |-> IF d = Tab THEN tab ELSE comma]]

\* The files of the example dataset, and what each delimiter makes of them
example_files ==
    {ExampleFile(<<"data/", "a", ".tsv">>,
                 Table(<<<<"Sample">>, <<"Gene", " ", "ID">>>>), Table(<<<<"Sample\tGene ID">>>>)),
     ExampleFile(<<"data/", "b", ".csv">>,
                 Table(<<<<"Sample,count">>>>), Table(<<<<"Sample">>, <<"count">>>>)),
     ExampleFile(<<"data/", "c", ".tsv">>,
                 Unreadable, Table(<<<<"Gene", "-", "ID">>, <<"count">>>>)),
     ExampleFile(<<"data/", "d", ".csv">>,
                 Unreadable, Table(<<<<"notes">>>>)),
     ExampleFile(<<"data/", "tsv", "/", "e", ".txt">>,
                 Table(<<<<"Sample">>, <<"count">>>>), Table(<<<<"Sample">>, <<"count">>>>))}

\* The atoms with the characters tsv in them
TsvAtoms == {"tsv", ".tsv"}

\* DataPortalFile.read_csv(sep=delim, nrows=5) on a file of the dataset
read_csv(file, delim) == file.read[delim]

\* The order as it would be with the comma always first
delimiter_order_comma_first(fname) == <<Comma, Tab>>

\* The delimiters in the order they are tried (2469)
delimiter_order(fname) ==
    IF \E i \in DOMAIN fname : fname[i] \in TsvAtoms
    THEN <<Tab, Comma>> ELSE <<Comma, Tab>>

\* The loop over the first i delimiters (2469-2484): [found, columns, delim]
RECURSIVE SniffUpTo(_, _, _)
SniffUpTo(file, order, i) ==
    IF i = 0 THEN [found |-> FALSE, columns |-> <<>>, delim |-> ""]
    ELSE With(SniffUpTo(file, order, i - 1),
              LAMBDA prev :
                IF prev.found THEN prev
                ELSE With(read_csv(file, order[i]),
                          LAMBDA df :
                            [found |-> ~df.raised /\ Len(df.columns) > 1,
                             columns |-> df.columns, delim |-> order[i]]))

\* str.lower() of the atoms of the column names
LowerOf(a) ==
    CASE a = "Sample" -> "sample"
      [] a = "Gene" -> "gene"
      [] a = "ID" -> "id"
      [] OTHER -> a

\* The atoms [^0-9a-zA-Z]+ matches
NonAlnum == {" ", "-", "_"}

\* re.sub('[^0-9a-zA-Z]+', '_', s): every run of them becomes one "_"
RECURSIVE sub_non_alnum(_)
sub_non_alnum(s) ==
    IF s = <<>> THEN <<>>
    ELSE IF Head(s) \notin NonAlnum THEN <<Head(s)>> \o sub_non_alnum(Tail(s))
    ELSE IF Len(s) > 1 /\ s[2] \in NonAlnum THEN sub_non_alnum(Tail(s))
    ELSE <<"_">> \o sub_non_alnum(Tail(s))

\* The column name as it is looked up (2531-2533)
sanitize(cname) ==
    RStrip(LStrip(sub_non_alnum([i \in DOMAIN cname |-> LowerOf(cname[i])]), "_"), "_")

Meta(file, name, desc) == [file |-> file, name |-> name, desc |-> desc]

\* The predefined terms (terms.json): sample has its entry for a.tsv before
\* the wildcard, gene_id after it
terms ==
    [k \in {<<"sample">>, <<"gene", "_", "id">>} |->
        [metadata |->
            IF k = <<"sample">>
            THEN <<Meta(<<"data/", "a", ".tsv">>, "Specimen", "Specimen of a.tsv"),
                   Meta(<<"*">>, "Sample", "Any sample")>>
            ELSE <<Meta(<<"*">>, "Gene", "Any gene")>>
                 \o <<Meta(<<"a", ".tsv">>, "Locus", "Gene of a.tsv"),
                      Meta(<<"data/", "b", ".csv">>, "Other", "Gene of b.csv")>>]]

\* str.replace("data/", "")
WithoutData(s) == SelectIdx(s, LAMBDA i : s[i] # "data/")

\* Whether an entry of the metadata is for the file (2541-2544)
MetaMatches(meta, fname) ==
    \/ WithoutData(fname) = WithoutData(meta.file)
    \/ meta.file = <<"*">>

\* WorkflowConfig.infer_column_name: the metadata in reverse order, the
\* first entry that matches
infer_column_name(cname, fname) ==
    With(Get(Get(terms, sanitize(cname), EmptyDict), "metadata", <<>>),
         LAMBDA metadata :
            With({i \in DOMAIN metadata : MetaMatches(metadata[i], fname)},
                 LAMBDA hits :
                    IF hits = {} THEN [name |-> sanitize(cname), desc |-> ""]
                    ELSE With(metadata[CHOOSE i \in hits : \A j \in hits : j <= i],
                              LAMBDA meta : [name |-> meta.name, desc |-> meta.desc])))

\* The specification of a file that was read (2491-2519)
FileSpec(file, delim, columns) ==
    With(Replace(Tail(file.name), "/", "_"),
         LAMBDA flat :
            [command |-> "hot.Parquet",
             params |-> [url |-> <<>>,
                         source |-> <<source_prefix>> \o Tail(file.name),
                         target |-> flat \o <<".parquet">>,
                         name |-> flat,
                         desc |-> flat,
                         read_csv |-> [parse |-> [delimiter |-> delim]],
                         cols |-> [i \in DOMAIN columns |->
                                     With(infer_column_name(columns[i], file.name),
                                          LAMBDA term : [col |-> columns[i],
                                                         name |-> term.name,
                                                         desc |-> term.desc])]]])

\* WorkflowConfig.parse_example_file: [ok, specs], specs empty when the
\* file could not be read; ok is FALSE when the assert on data/ fails
parse_example_file(file) ==
    With(SniffUpTo(file, delimiter_order(file.name), 2),
         LAMBDA s :
            IF ~s.found THEN [ok |-> TRUE, specs |-> <<>>]
            ELSE IF Head(file.name) # "data/" THEN [ok |-> FALSE, specs |-> <<>>]
            ELSE [ok |-> TRUE, specs |-> <<FileSpec(file, s.delim, s.columns)>>])

\* The loop over the first i files (2445-2453): [ok, specs]
RECURSIVE ParsedUpTo(_, _)
ParsedUpTo(file_list, i) ==
    IF i = 0 THEN [ok |-> TRUE, specs |-> <<>>]
    ELSE With(ParsedUpTo(file_list, i - 1),
              LAMBDA prev :
                IF ~prev.ok THEN prev
                ELSE With(parse_example_file(file_list[i]),
                          LAMBDA r : [ok |-> r.ok, specs |-> prev.specs \o r.specs]))

\* The specifications as they would be with the files taken last to first
example_specs_reversed(file_list) ==
    ParsedUpTo([i \in DOMAIN file_list |-> file_list[Len(file_list) + 1 - i]], Len(file_list))

\* The specifications of the files of the list, in its order
example_specs(file_list) == ParsedUpTo(file_list, Len(file_list))

\* The dicts no other document of the session refers to, once the output
\* of the committed one is replaced
ExampleFree(W) ==
    FileIds \ UNION {DocFiles(W.docs[d]) : d \in LiveDocs(W) \ {W.config}}

\* WorkflowConfig.parse_example_dataset with a project and a dataset
\* selected: the output of the committed document itself is replaced, and
\* what follows is reset() alone
parse_example_dataset(W, file_list) ==
    IF file_list = <<>> THEN NoChange(W)
    ELSE With(save_history(W),
              LAMBDA W1 :
                With(IF W1.config = NoDoc THEN StoreConfig(W1) ELSE [ok |-> TRUE, W |-> W1],
                     LAMBDA c :
                        IF ~c.ok THEN Raised(c.W)
                        ELSE With(example_specs(file_list),
                                  LAMBDA g :
                                    With(LoadCommands(g.specs \o (IF g.ok THEN <<Manifest>>
                                                                  ELSE <<>>),
                                                      c.W.files, ExampleFree(c.W)),
                                         LAMBDA r :
                                            [ran |-> TRUE, ok |-> g.ok,
                                             then |-> IF g.ok THEN "reset" ELSE "none",
                                             W |-> [c.W EXCEPT
                                                      !.docs[c.W.config].output = r.output,
                                                      !.files = r.files]]))))

(***************************************************************************)
(* The session as a state machine                                          *)
(***************************************************************************)
World ==
    [config |-> config, history |-> history, future |-> future,
     docs |-> docs, files |-> files, elements |-> elements]

\* The structural value of the committed document; a session without one
\* shows the empty document
Current(W) == IF W.config = NoDoc THEN DocValue(empty_config, W.files) ELSE View(W, W.config)

\* A callback that committed a new document through save_config
Accepted(r) == r.ran /\ r.ok

\* What is remembered of the last operation, for the properties:
\*   op, ran, ok, why  the operation and how its callback ended
\*   edits   the accepted edits that changed the document while nothing but
\*           edits happened since the session began (-1 otherwise, or when
\*           there were more than MaxEdits)
\*   held    the session held a committed document before the operation
\*   before  the document before an edit or an import of the six artifacts
\*   dumped, again  the document an accepted edit committed, and the dump of
\*           the elements loaded from it
\*   undone  after an undo that follows an accepted edit which changed a
\*           committed document: the document before that edit
NoOp(op) ==
    [op |-> op, ran |-> FALSE, ok |-> TRUE, why |-> "", edits |-> -1, held |-> FALSE,
     before |-> Null, dumped |-> Null, again |-> Null, undone |-> Null]

CountEdits(op, r) ==
    IF op # "edit" \/ last.edits = -1 THEN -1
    ELSE IF ~(Accepted(r) /\ Current(r.W) # Current(World)) THEN last.edits
    ELSE IF last.edits < MaxEdits THEN last.edits + 1
    ELSE -1

Undone(op, r) ==
    IF /\ op = "undo" /\ r.ok
       /\ last.op = "edit" /\ last.ran /\ last.ok /\ last.held
       /\ last.before # Current(World)
    THEN last.before
    ELSE Null

Step(op, r) ==
    /\ config' = r.W.config
    /\ history' = r.W.history
    /\ future' = r.W.future
    /\ docs' = r.W.docs
    /\ files' = r.W.files
    /\ elements' = r.W.elements
    /\ downloads' = downloads
    /\ call' = call
    /\ last' = [op |-> op, ran |-> r.ran, ok |-> r.ok, why |-> r.why,
                edits |-> CountEdits(op, r),
                held |-> config # NoDoc,
                before |-> IF op \in {"edit", "import_all", "import_part", "examples"}
                           THEN Current(World) ELSE Null,
                dumped |-> IF op = "edit" THEN r.dumped ELSE Null,
                again |-> IF op = "edit" THEN r.again ELSE Null,
                undone |-> Undone(op, r)]

CanCommit == FreeDocs(World) # {}

\* Which widgets the last script run drew before it stopped
ParamServed(E, i) ==
    /\ i \in DOMAIN E.params
    /\ E.stage >= 3 \/ (E.stage = 2 /\ \A j \in 1..i : ParamServe(E.params[j]).ok)

OutputNamed(E, i) ==
    /\ i \in DOMAIN E.outputs
    /\ E.stage = 5 \/ (E.stage = 3 /\ \A j \in 1..(i - 1) : OutputServeOk(E.outputs[j]))

OutputServed(E, i) ==
    /\ i \in DOMAIN E.outputs
    /\ E.stage = 5 \/ (E.stage = 3 /\ \A j \in 1..i : OutputServeOk(E.outputs[j]))

\* A session state without any key, before the first script run
FreshSession ==
    [config |-> NoDoc, history |-> <<>>, future |-> <<>>,
     docs |-> [d \in DocIds |-> Null],
     files |-> [f \in 0..MaxFiles |-> IF f = 0 THEN Manifest ELSE Null],
     elements |-> SourceOnly(SourceLoad(empty_config))]

Started(W0) ==
    /\ config = W0.config
    /\ history = W0.history
    /\ future = W0.future
    /\ docs = W0.docs
    /\ files = W0.files
    /\ elements = W0.elements

\* No wrapped function is being called
NoCall ==
    [pc |-> "idle", retries |-> 0, func |-> <<>>, i |-> 0, calls |-> 0,
     result |-> "None", raised |-> "None"]

\* The first script run of a session
Init ==
    /\ Started(Rerun(FreshSession))
    /\ downloads = NoText
    /\ last = [NoOp("init") EXCEPT !.edits = 0]
    /\ call = NoCall

WorkflowNames == {"My Workflow Name", "Variant Calling"}

UpdateValue ==
    /\ CanCommit
    /\ \E val \in WorkflowNames : Step("edit", Run(update_value(World, "name", val)))

AddParameter ==
    /\ CanCommit
    /\ elements.stage >= 3
    /\ Len(elements.params) < MaxParams
    /\ Step("edit", Run(params_add_parameter(World)))

ParamMenu(p) ==
    {<<"input_type", "Form Entry">>, <<"input_type", "Hardcoded Value">>}
    \cup (IF p.input_type = "Form Entry"
          THEN {<<"form_type", "Cirro Reference">>, <<"form.type", "boolean">>}
          ELSE {})
    \cup (IF p.input_type = "Form Entry" /\ p.form_type = "Cirro Reference"
          THEN {<<"reference_id", <<"Barcode files (general)">> >>}
          ELSE {})

ParamUpdate ==
    /\ CanCommit
    /\ \E i \in DOMAIN elements.params :
          /\ ParamServed(elements, i)
          /\ \E m \in ParamMenu(elements.params[i]) :
                Step("edit", Run(param_update_attribute(World, i, m[1], m[2])))

ParamRemove ==
    /\ CanCommit
    /\ \E i \in DOMAIN elements.params :
          /\ ParamServed(elements, i)
          /\ Step("edit", Run(param_remove(World, i)))

AddOutputFile ==
    /\ CanCommit
    /\ elements.stage = 5
    /\ Len(elements.outputs) < MaxOutputs
    /\ FreeFiles(World) # {}
    /\ Step("edit", Run(add_output_file(World)))

\* update_attribute("name") of an output
OutputRename ==
    /\ CanCommit
    /\ \E i \in DOMAIN elements.outputs :
          /\ OutputNamed(elements, i)
          /\ Step("edit", Run(output_update_attribute(World, i, "name", <<"Counts">>)))

\* update_attribute("source") of an output
OutputSource ==
    /\ CanCommit
    /\ \E i \in DOMAIN elements.outputs :
          /\ OutputNamed(elements, i)
          /\ \E v \in {<<"[", "Sample", "]", ".csv">>, <<"a", ".csv">>} :
                Step("edit", Run(output_update_attribute(World, i, "source", v)))

UpdateDelimiter ==
    /\ CanCommit
    /\ \E i \in DOMAIN elements.outputs :
          /\ OutputServed(elements, i)
          /\ \E name \in DOMAIN delimiters : Step("edit", Run(update_delimiter(World, i, name)))

AddColumn ==
    /\ CanCommit
    /\ \E i \in DOMAIN elements.outputs :
          /\ OutputServed(elements, i)
          /\ Len(elements.outputs[i].columns) < MaxCols
          /\ Step("edit", Run(add_column(World, i)))

ColumnUpdate ==
    /\ CanCommit
    /\ \E i \in DOMAIN elements.outputs :
          /\ OutputServed(elements, i)
          /\ \E c \in DOMAIN elements.outputs[i].columns :
                Step("edit", Run(column_update_attribute(World, i, c, "name", <<"Gene">>)))

ColumnRemove ==
    /\ CanCommit
    /\ \E i \in DOMAIN elements.outputs :
          /\ OutputServed(elements, i)
          /\ \E c \in DOMAIN elements.outputs[i].columns :
                Step("edit", Run(column_remove(World, i, c)))

ConcatUpdate ==
    /\ CanCommit
    /\ \E i \in DOMAIN elements.outputs :
          /\ OutputServed(elements, i)
          /\ \E t \in DOMAIN elements.outputs[i].concat :
                Step("edit", Run(concat_update_attribute(World, i, t, "name", <<"Sample ID">>)))

OutputRemove ==
    /\ CanCommit
    /\ \E i \in DOMAIN elements.outputs :
          /\ OutputServed(elements, i)
          /\ Step("edit", Run(output_remove(World, i)))

\* The sidebar shows the Undo button when populate_downloads found a past
Undo ==
    /\ elements.text # NoText
    /\ history # <<>>
    /\ Step("undo", Run(undo(World)))

\* The sidebar shows the Redo button when populate_downloads found a future
Redo ==
    /\ elements.text # NoText
    /\ future # <<>>
    /\ Step("redo", Run(redo(World)))

CanUpload(batch) ==
    /\ CanCommit
    /\ BatchEntries(batch) <= Cardinality(FreeFiles(World))

\* The six artifacts of the last download, together
UploadArtifacts ==
    /\ downloads # NoText
    /\ CanUpload(AllArtifacts(downloads))
    /\ Step("import_all", Run(load_from_uploaded_files(World, AllArtifacts(downloads))))

\* One artifact of the last download
UploadSection ==
    /\ downloads # NoText
    /\ \E kw \in {"dynamo", "output"} :
          /\ CanUpload(<<Artifact(downloads, kw)>>)
          /\ Step("import_part", Run(load_from_uploaded_files(World, <<Artifact(downloads, kw)>>)))

\* The batches of an artifact and a file whose name the application
\* rejects, last or first
RejectedBatches(dl) ==
    {<<Artifact(dl, "dynamo"), Unexpected>>, <<Unexpected, Artifact(dl, "dynamo")>>}

UploadUnexpected ==
    /\ downloads # NoText
    /\ CanCommit
    /\ \E batch \in RejectedBatches(downloads) :
          Step("import_bad", Run(load_from_uploaded_files(World, batch)))

\* Artifacts written by hand
UploadHandWritten ==
    \E batch \in {<<HandForm, HandInput>>, <<HandOutput>>} :
        /\ CanUpload(batch)
        /\ Step("import_hand", Run(load_from_uploaded_files(World, batch)))

\* A process-* file that is no artifact
UploadIgnored == Step("import_none", Run(load_from_uploaded_files(World, <<Ignored>>)))

Logout == Step("logout", Run(logout(World)))

Refresh == Step("refresh", Run(refresh(World)))

\* The user saves the six artifacts the download buttons hold
Download ==
    /\ elements.text # NoText
    /\ downloads # elements.text
    /\ downloads' = elements.text
    /\ last' = NoOp("download")
    /\ UNCHANGED <<config, history, future, docs, files, elements, call>>

\* Editing with undo and redo
Next ==
    \/ UpdateValue
    \/ AddParameter
    \/ ParamUpdate
    \/ ParamRemove
    \/ AddOutputFile
    \/ OutputRename
    \/ Undo
    \/ Redo

Spec == Init /\ [][Next]_vars

\* Editing the workflow name, with downloads and uploads
NextImport ==
    \/ UpdateValue
    \/ Undo
    \/ Redo
    \/ Download
    \/ UploadSection
    \/ UploadUnexpected
    \/ UploadIgnored

SpecImport == Init /\ [][NextImport]_vars

\* Editing the output files, with undo and redo
NextOutputs ==
    \/ UpdateValue
    \/ AddOutputFile
    \/ OutputSource
    \/ ConcatUpdate
    \/ OutputRemove
    \/ Undo
    \/ Redo

SpecOutputs == Init /\ [][NextOutputs]_vars

\* Editing the columns of the output files, with undo
NextColumns ==
    \/ AddOutputFile
    \/ OutputRename
    \/ AddColumn
    \/ ColumnUpdate
    \/ ColumnRemove
    \/ Undo

SpecColumns == Init /\ [][NextColumns]_vars

\* Editing the output files
NextEdits ==
    \/ AddOutputFile
    \/ OutputRename
    \/ OutputSource
    \/ UpdateDelimiter
    \/ ConcatUpdate

SpecEdits == Init /\ [][NextEdits]_vars

\* The round trip through the artifacts
NextRoundTrip ==
    \/ AddParameter
    \/ ParamUpdate
    \/ AddOutputFile
    \/ OutputSource
    \/ ConcatUpdate
    \/ Download
    \/ UploadArtifacts

SpecRoundTrip == Init /\ [][NextRoundTrip]_vars

\* The source paths of a hand-written process-output.json
FilterSources ==
    {<<"[", "Sample", "]", "/", "counts.csv">>, <<"sample1", "/", "counts.csv">>,
     <<"[", "Lane", "]", "/", "counts.csv">>,
     <<"[", "Sample", "]", "/", "[", "Sample", "]", ".csv">>}

\* process-output.json with one tabular entry for each source of srcs
OutputArtifact(srcs) ==
    [name |-> file_name("output"),
     content |-> [commands |->
        [i \in 1..(Len(srcs) + 1) |->
            IF i > Len(srcs) THEN Manifest
            ELSE [command |-> "hot.Parquet",
                  params |-> [source |-> <<source_prefix>> \o srcs[i]]]]]]

UploadOutputs ==
    /\ CanCommit
    /\ \E srcs \in UNION {[1..n -> FilterSources] : n \in 1..MaxOutputs} :
          /\ CanUpload(<<OutputArtifact(srcs)>>)
          /\ Step("import_hand", Run(load_from_uploaded_files(World, <<OutputArtifact(srcs)>>)))

\* Uploaded output files, their tokens edited and entries removed
NextFilter ==
    \/ UploadOutputs
    \/ ConcatUpdate
    \/ OutputRemove

SpecFilter == Init /\ [][NextFilter]_vars

\* Param.form_type_options
form_type_options ==
    {"Cirro Dataset", "Input File", "Cirro Reference", "User-Provided Value"}

\* The Form Entry Type selectbox of a Form Entry parameter
ParamFormType ==
    /\ CanCommit
    /\ \E i \in DOMAIN elements.params :
          /\ ParamServed(elements, i)
          /\ elements.params[i].input_type = "Form Entry"
          /\ \E val \in form_type_options :
                Step("edit", Run(param_update_attribute(World, i, "form_type", val)))

\* The form entries of the parameters
NextFormTypes ==
    \/ AddParameter
    \/ ParamUpdate
    \/ ParamFormType
    \/ ParamRemove
    \/ Undo

SpecFormTypes == Init /\ [][NextFormTypes]_vars

(***************************************************************************)
(* autoretry                                                               *)
(***************************************************************************)
\* What one call of the wrapped function does: it returns None or a
\* value, or it raises the retryable exception or another one
Returns == {"None", "x", "y"}

Raises == {"TransportAlreadyConnected", "KeyError"}

\* inner(*args) is entered: result = None, and the loop is at its head
InitRetry ==
    /\ Started(Rerun(FreshSession))
    /\ downloads = NoText
    /\ last = NoOp("init")
    /\ \E retries \in 0..MaxRetries :
          \E func \in [1..retries -> Returns \cup Raises] :
             call = [pc |-> "for", retries |-> retries, func |-> func, i |-> 0, calls |-> 0,
                     result |-> "None", raised |-> "None"]

\* One iteration of the loop of inner that raises on every retryable exception
attempt_raises_at_once(c) ==
    With(c.func[c.calls + 1],
         LAMBDA out :
            With([c EXCEPT !.calls = @ + 1],
                 LAMBDA c1 :
                    IF out \in Raises
                    THEN [c1 EXCEPT !.pc = "raised", !.raised = out]
                    ELSE IF out # "None"
                    THEN [c1 EXCEPT !.result = out, !.pc = "return"]
                    ELSE [c1 EXCEPT !.result = out, !.i = @ + 1]))

\* One iteration of the loop of inner, with i = c.i: the call, the except
\* clause and the break
attempt(c) ==
    With(c.func[c.calls + 1],
         LAMBDA out :
            With([c EXCEPT !.calls = @ + 1],
                 LAMBDA c1 :
                    IF out = "TransportAlreadyConnected"
                    THEN IF c.i = c.retries - 1
                         THEN [c1 EXCEPT !.pc = "raised", !.raised = out]
                         ELSE IF c1.result # "None"
                              THEN [c1 EXCEPT !.pc = "return"]
                              ELSE [c1 EXCEPT !.i = @ + 1]
                    ELSE IF out \in Raises
                    THEN [c1 EXCEPT !.pc = "raised", !.raised = out]
                    ELSE IF out # "None"
                    THEN [c1 EXCEPT !.result = out, !.pc = "return"]
                    ELSE [c1 EXCEPT !.result = out, !.i = @ + 1]))

\* for i in range(retries): one more iteration
InnerAttempt ==
    /\ call.pc = "for"
    /\ call.i < call.retries
    /\ call' = attempt(call)
    /\ UNCHANGED <<config, history, future, docs, files, elements, downloads, last>>

\* return result, after the break or at the end of the range
InnerReturn ==
    /\ call.pc = "return" \/ (call.pc = "for" /\ call.i = call.retries)
    /\ call' = [call EXCEPT !.pc = "returned"]
    /\ UNCHANGED <<config, history, future, docs, files, elements, downloads, last>>

NextRetry ==
    \/ InnerAttempt
    \/ InnerReturn

SpecRetry == InitRetry /\ [][NextRetry]_vars

\* The binding expressions a process-input.json or the Value input may hold
BindingValues ==
    {<<"$.params.dataset.name">>, <<"$.params.dataset.s3|/data/">>,
     <<"$.params.inputs[0].s3|/data/">>,
     <<FormPrefix, "a">>, <<FormPrefix, "a", ".", "b">>, <<FormPrefix>>,
     <<"$.params.dataset.paramJson">>, <<"$.params.dataset.name", "s">>,
     <<"hello">>, <<>>}

\* What the user types into the Value input, and what the uploaded
\* process-input.json holds
TypedValues == {<<"hello">>, <<"$.params.dataset.name">>}

UploadedValues == {<<FormPrefix, "a", ".", "b">>, <<"$.params.inputs[0].s3|/data/">>}

\* Param.input_type_options
input_type_options ==
    {"Dataset Name", "Input Directory", "Output Directory", "Form Entry", "Hardcoded Value"}

\* The Parameter Type selectbox of a parameter
ParamInputType ==
    /\ CanCommit
    /\ \E i \in DOMAIN elements.params :
          /\ ParamServed(elements, i)
          /\ \E val \in input_type_options :
                Step("edit", Run(param_update_attribute(World, i, "input_type", val)))

\* The Value text input of a Hardcoded Value parameter
ParamValue ==
    /\ CanCommit
    /\ \E i \in DOMAIN elements.params :
          /\ ParamServed(elements, i)
          /\ elements.params[i].input_type = "Hardcoded Value"
          /\ \E val \in TypedValues :
                Step("edit", Run(param_update_attribute(World, i, "value", val)))

\* process-input.json with one binding expression
BindingArtifact(v) ==
    [name |-> file_name("input"), content |-> <<[k |-> <<"ref">>, v |-> v]>>]

UploadInput ==
    /\ CanCommit
    /\ \E v \in UploadedValues :
          Step("import_hand", Run(load_from_uploaded_files(World, <<BindingArtifact(v)>>)))

\* The bindings of the parameters
NextBindings ==
    \/ AddParameter
    \/ ParamInputType
    \/ ParamValue
    \/ UploadInput

SpecBindings == Init /\ [][NextBindings]_vars

\* process-input.json with a Hardcoded Value parameter param_n for each n of S
InputArtifact(S) ==
    [name |-> file_name("input"),
     content |-> [i \in 1..Cardinality(S) |-> [k |-> <<"param_", Str(Nth(S, i))>>, v |-> <<>>]]]

\* A session that began with the upload of the parameters of a workflow
InitParamIds ==
    /\ \E S \in SUBSET (1..MaxIds) :
          Started(Run(load_from_uploaded_files(Rerun(FreshSession), <<InputArtifact(S)>>)).W)
    /\ downloads = NoText
    /\ last = NoOp("init")
    /\ call = NoCall

AddNextParameter ==
    /\ CanCommit
    /\ elements.stage >= 3
    /\ Len(elements.params) < MaxIds
    /\ Step("edit", Run(params_add_parameter(World)))

\* Adding and removing parameters
NextParamIds ==
    \/ AddNextParameter
    \/ ParamRemove

SpecParamIds == InitParamIds /\ [][NextParamIds]_vars

\* The nodes a hand-written process-form.json may give a parameter
HandNodes ==
    {[type |-> "string"],
     [type |-> "string", pathType |-> "dataset"],
     [type |-> "string", pathType |-> "dataset", process |-> "paired_dnaseq"],
     [type |-> "string", pathType |-> "dataset", file |-> <<"**", "/", "*">>],
     [type |-> "string", pathType |-> "references"],
     [type |-> "string", pathType |-> "references",
      file |-> <<"genome_fasta", "/", "genome.fasta">>],
     [type |-> "string", pathType |-> "references",
      file |-> <<"**", "/", "genome_fasta", "/", "**", "/", "genome.fasta">>]}

\* The form trees of a hand-written process-form.json: a root without
\* properties, an empty properties map, and one node under the key ref
HandForms ==
    {EmptyDict, [properties |-> EmptyDict]}
        \cup {[properties |-> [k \in {<<"ref">>} |-> node]] : node \in HandNodes}

\* The bindings of a hand-written process-input.json: the form entry ref
\* and the form entry x below ref
HandValues == {<<FormPrefix, "ref">>, <<FormPrefix, "ref", ".", "x">>}

FormArtifact(form) ==
    [name |-> file_name("form"), content |-> [form |-> form, ui |-> EmptyDict]]

\* The entries of a hand-written process-output.json: a table, an entry
\* without a command and an entry with a command that is not known
HandEntries ==
    {[command |-> "hot.Parquet", params |-> [source |-> <<source_prefix, "t", ".csv">>]],
     [params |-> [source |-> <<source_prefix, "u", ".csv">>]],
     [command |-> "hot.Dsv", params |-> [source |-> <<source_prefix, "v", ".csv">>]]}

CommandsArtifact(entries) ==
    [name |-> file_name("output"),
     content |-> [commands |-> [i \in 1..(Len(entries) + 1) |->
                                   IF i > Len(entries) THEN Manifest ELSE entries[i]]]]

\* The form, the binding and the outputs, written by hand
HandBatch(form, v, entries) ==
    <<FormArtifact(form), BindingArtifact(v), CommandsArtifact(entries)>>

\* A session that began with the upload of artifacts written by hand
InitHandForms ==
    /\ \E form \in HandForms, v \in HandValues,
          entries \in UNION {[1..n -> HandEntries] : n \in 1..MaxOutputs} :
          Started(Run(load_from_uploaded_files(Rerun(FreshSession),
                                               HandBatch(form, v, entries))).W)
    /\ downloads = NoText
    /\ last = NoOp("init")
    /\ call = NoCall

\* Editing what was written by hand
NextHandForms ==
    \/ ParamRemove
    \/ OutputRemove

SpecHandForms == InitHandForms /\ [][NextHandForms]_vars

\* The lists of files get_files_in_dataset may give for the extensions
ExampleLists ==
    {<<>>} \cup {<<f>> : f \in example_files}
           \cup {<<p[1], p[2]>> : p \in {q \in example_files \X example_files : q[1] # q[2]}}

\* Whether the heaps of the model have room for the bootstrapping
CanBootstrap(W, file_list) ==
    /\ W.config = NoDoc => FreeDocs(W) # {}
    /\ Len(file_list) <= MaxExamples
    /\ Len(example_specs(file_list).specs) <= Cardinality(ExampleFree(W))

\* The Populate from Files button of the sidebar
ParseExamples ==
    /\ \E file_list \in ExampleLists :
          /\ CanBootstrap(World, file_list)
          /\ Step("examples", Run(parse_example_dataset(World, file_list)))

\* Bootstrapping, editing and undoing
NextExamples ==
    \/ ParseExamples
    \/ OutputRemove
    \/ Undo

SpecExamples == Init /\ [][NextExamples]_vars

\* The ids the user may type as Parameter ID: the id of another parameter
\* and an id with a '.' in it
RenameIds == {<<"param_", "1">>, <<"a", ".", "b">>}

\* The Parameter ID text input
ParamRename ==
    /\ CanCommit
    /\ \E i \in DOMAIN elements.params :
          /\ ParamServed(elements, i)
          /\ \E val \in RenameIds :
                Step("edit", Run(param_update_attribute(World, i, "id", val)))

\* The Parameter Type selectbox set to Form Entry
ParamFormEntry ==
    /\ CanCommit
    /\ \E i \in DOMAIN elements.params :
          /\ ParamServed(elements, i)
          /\ Step("edit", Run(param_update_attribute(World, i, "input_type", "Form Entry")))

\* Renaming the parameters of an uploaded workflow
NextRename ==
    \/ ParamRename
    \/ ParamFormEntry
    \/ ParamRemove

SpecRename == InitParamIds /\ [][NextRename]_vars

\* Editing a session that holds hand-written artifacts
NextHandWritten ==
    \/ UploadHandWritten
    \/ Logout
    \/ Refresh
    \/ UpdateValue
    \/ AddOutputFile
    \/ OutputRename
    \/ Undo

SpecHandWritten == Init /\ [][NextHandWritten]_vars

(***************************************************************************)
(* The history of edits                                                    *)
(***************************************************************************)
SameViews(W1, s1, W2, s2) ==
    /\ Len(s1) = Len(s2)
    /\ \A i \in DOMAIN s1 : View(W1, s1[i]) = View(W2, s2[i])

\* C1: from a fresh session, after N accepted edits that each changed the
\* document, with no undo or redo in between, the past holds exactly N
\* documents and the future is empty
C1_PastCountsEdits ==
    last.edits >= 0 => Len(history) = last.edits /\ future = <<>>

\* C2: immediately after an accepted edit the future is empty
C2_FutureEmptyAfterEdit ==
    last.op = "edit" /\ last.ran /\ last.ok => future = <<>>

\* The stacks and the current document of W2 are what one undo makes of W1
UndoOf(W1, W2) ==
    /\ W2.config = Head(W1.history)
    /\ View(W2, W2.config) = View(W1, Head(W1.history))
    /\ W2.history = Tail(W1.history)
    /\ SameViews(W2, W2.history, W1, Tail(W1.history))
    /\ W2.future = <<W1.config>> \o W1.future
    /\ SameViews(W2, W2.future, W1, <<W1.config>> \o W1.future)

\* C3: undo with a non-empty past makes the head of the past the current
\* document, takes exactly that entry from the past, puts the old current
\* document at the head of the future and leaves the rest of both stacks
C3_UndoMovesOne ==
    config # NoDoc /\ history # <<>> =>
        With(Run(undo(World)), LAMBDA r : r.ok /\ UndoOf(World, r.W))

\* The current document and both stacks of W2 are those of W1
SameSession(W1, W2) ==
    /\ W2.config = W1.config
    /\ Current(W2) = Current(W1)
    /\ W2.history = W1.history
    /\ SameViews(W2, W2.history, W1, W1.history)
    /\ W2.future = W1.future
    /\ SameViews(W2, W2.future, W1, W1.future)

\* C4: undo followed at once by redo gives back the current document, the
\* past and the future; so does redo followed at once by undo
C4_RedoReversesUndo ==
    /\ config # NoDoc /\ history # <<>> =>
          With(Run(undo(World)),
               LAMBDA r1 : With(Run(redo(r1.W)),
                                LAMBDA r2 : r1.ok /\ r2.ok /\ SameSession(World, r2.W)))
    /\ config # NoDoc /\ future # <<>> =>
          With(Run(redo(World)),
               LAMBDA r1 : With(Run(undo(r1.W)),
                                LAMBDA r2 : r1.ok /\ r2.ok /\ SameSession(World, r2.W)))

\* C5: undo() with an empty past, and redo() with an empty future, raises
\* no error and leaves the current document, the past and the future
C5_EmptyStackNoOp ==
    config # NoDoc =>
    /\ history = <<>> =>
          With(Run(undo(World)), LAMBDA r : r.ok /\ SameSession(World, r.W))
    /\ future = <<>> =>
          With(Run(redo(World)), LAMBDA r : r.ok /\ SameSession(World, r.W))

\* C6: when an accepted field edit has changed the committed document D,
\* one undo makes the current document structurally equal to D
C6_UndoRestoresDocument ==
    last.undone # Null => Current(World) = last.undone

(***************************************************************************)
(* The commit of an edit                                                   *)
(***************************************************************************)
\* C7: when the dump of an element fails during an edit, the committed
\* document is the one that was committed before the edit
C7_FailedDumpKeepsDocument ==
    last.op = "edit" /\ last.why = "dump" => Current(World) = last.before

\* C8: the elements loaded from a document that dump produced dump a
\* document structurally equal to it
C8_LoadDumpIdempotent ==
    last.op = "edit" /\ last.ran /\ last.ok => last.again = last.dumped

(***************************************************************************)
(* The artifacts                                                           *)
(***************************************************************************)
\* C9: the six artifacts of a document, imported together, make a document
\* structurally equal to the exported one
C9_ExportImportRoundTrip ==
    last.op = "import_all" /\ last.ok => Current(World) = TextValue(downloads)

\* An import that replaced another document by one with a parameter and an
\* output file whose source holds a token
C9_Witness ==
    /\ last.op = "import_all" /\ last.ok
    /\ last.before # Current(World)
    /\ DOMAIN Current(World).input # {}
    /\ \E i \in DOMAIN Current(World).output.commands :
          Has(Current(World).output.commands[i], "concat")

\* C10: a batch that holds a file whose name is rejected leaves the
\* current document, the past and the future, wherever the file stands
C10_ImportAllOrNothing ==
    downloads # NoText /\ CanCommit =>
        \A batch \in RejectedBatches(downloads) :
            With(Run(load_from_uploaded_files(World, batch)),
                 LAMBDA r : SameSession(World, r.W))

\* C11: an upload that holds a file whose name is none of the six artifact
\* names ends in an error: the file is neither accepted nor skipped
C11_UnknownNameRejected ==
    last.op \in {"import_bad", "import_none"} => last.ran /\ ~last.ok

(***************************************************************************)
(* The parameters                                                          *)
(***************************************************************************)
\* The ids of the parameters of the committed document, in order
ParamIds(W) == [i \in DOMAIN W.docs[W.config].input |-> W.docs[W.config].input[i].k]

\* new is old with param_N at its end, N the smallest integer from 1 on
\* for which param_N is not in old
IsNextId(old, new) ==
    \E n \in 1..(Len(old) + 1) :
        /\ new = Append(old, <<"param_", Str(n)>>)
        /\ <<"param_", Str(n)>> \notin Range(old)
        /\ \A m \in 1..(n - 1) : <<"param_", Str(m)>> \in Range(old)

\* C12: Add Parameter gives the new parameter the id param_N with N the
\* smallest integer from 1 on that no parameter has, so the ids stay distinct
C12_SmallestFreeId ==
    config # NoDoc /\ CanCommit /\ elements.stage >= 3 /\ Len(elements.params) < MaxIds =>
        With(Run(params_add_parameter(World)),
             LAMBDA r : r.ok /\ IsNextId(ParamIds(World), ParamIds(r.W)))

\* Add Parameter has filled the gap between param_1 and param_3
C12_Witness ==
    /\ last.op = "edit" /\ last.ran /\ last.ok
    /\ config # NoDoc
    /\ ParamIds(World) = <<<<"param_", "1">>, <<"param_", "3">>, <<"param_", "2">> >>

\* The kind of a binding expression: a fixed expression, else the prefix
\* of a form entry, else a hardcoded value
KindOf(v) ==
    IF v = <<"$.params.dataset.name">> THEN "Dataset Name"
    ELSE IF v = <<"$.params.inputs[0].s3|/data/">> THEN "Input Directory"
    ELSE IF v = <<"$.params.dataset.s3|/data/">> THEN "Output Directory"
    ELSE IF StartsWith(v, <<FormPrefix>>) THEN "Form Entry"
    ELSE "Hardcoded Value"

\* C13: the constructor gives every binding expression exactly one of the
\* five kinds: the kind of a fixed expression when it equals one, else
\* Form Entry when it starts with the form prefix (the form path is the
\* rest split on '.'), else Hardcoded Value
C13_ClassificationByFirstMatch ==
    /\ \A v \in BindingValues :
          With(ParamInit(<<"ref">>, v, load_config(World).form.form),
               LAMBDA r :
                  /\ r.p.input_type = KindOf(v)
                  /\ r.p.input_type \in input_type_options
                  /\ KindOf(v) = "Form Entry" => r.p.form_key = Split(DropFirst(v, 1), "."))
    /\ elements.stage >= 3 =>
          \A i \in DOMAIN elements.params :
              elements.params[i].input_type = KindOf(load_config(World).input[i].v)

\* The script run has loaded a Form Entry whose form path has two keys
C13_Witness ==
    /\ elements.stage >= 3
    /\ \E i \in DOMAIN elements.params :
          /\ elements.params[i].input_type = "Form Entry"
          /\ elements.params[i].form_key = << <<"a">>, <<"b">> >>
          /\ load_config(World).input[i].v = <<FormPrefix, "a", ".", "b">>

\* The edits of the binding of a served parameter
BindingEdits(p) ==
    {<<"input_type", t>> : t \in input_type_options}
    \cup (IF p.input_type = "Hardcoded Value"
          THEN {<<"value", v>> : v \in BindingValues} ELSE {})

\* C14: a parameter of any kind, in any state the user can edit it to, is
\* of the same kind when the document it is dumped to is loaded again
C14_KindRoundTrip ==
    CanCommit =>
        \A i \in DOMAIN elements.params :
            ParamServed(elements, i) =>
                \A e \in BindingEdits(elements.params[i]) :
                    With(Run(param_update_attribute(World, i, e[1], e[2])),
                         LAMBDA r :
                            r.ran /\ r.ok =>
                                /\ i \in DOMAIN r.W.elements.params
                                /\ r.W.elements.params[i].input_type =
                                      ParamUpdateAttribute(elements.params[i], e[1], e[2]).p.input_type)

(***************************************************************************)
(* The output files                                                        *)
(***************************************************************************)
\* The tabular entries of the committed document, in order
DocEntries(W) ==
    With(Get(load_config(W).output, "commands", <<>>),
         LAMBDA cmds :
            With(SelectIdx(cmds, LAMBDA i : cmds[i] # 0),
                 LAMBDA refs : [i \in DOMAIN refs |-> W.files[refs[i]]]))

\* The entries the loaded elements work on
Working(W) == [i \in DOMAIN W.elements.outputs |-> W.files[W.elements.outputs[i].ref]]

\* No entry of es with a token has a pattern that matches the source of
\* another entry of es
NoOverlap(es) ==
    \A i, j \in DOMAIN es :
        i # j /\ tokens(es[i]) # <<>> => ~matches_regex(es[j], source(es[i]))

\* C15: after load no token-bearing entry of the working set has a pattern
\* that matches the source of another entry; of "[Sample]/counts.csv" and
\* "sample1/counts.csv", in either order, the first alone is kept
C15_OverlapFilter ==
    elements.stage >= 3 =>
        /\ NoOverlap(Working(World))
        /\ {source(DocEntries(World)[i]) : i \in DOMAIN DocEntries(World)} =
              {<<"[", "Sample", "]", "/", "counts.csv">>, <<"sample1", "/", "counts.csv">>}
           /\ Len(DocEntries(World)) = 2
           => /\ Len(Working(World)) = 1
              /\ source(Working(World)[1]) = <<"[", "Sample", "]", "/", "counts.csv">>

\* The concrete entry came first and the load has dropped it
C15_Witness ==
    /\ elements.stage >= 3
    /\ Len(DocEntries(World)) = 2
    /\ source(DocEntries(World)[1]) = <<"sample1", "/", "counts.csv">>
    /\ source(DocEntries(World)[2]) = <<"[", "Sample", "]", "/", "counts.csv">>
    /\ Len(Working(World)) = 1

\* C16: the committed document never holds two entries of which one has a
\* token-bearing source whose pattern matches the source of the other
C16_NoOverlapCommitted ==
    config # NoDoc => NoOverlap(DocEntries(World))

\* C17: the filter loop of the load ends after at most as many passes as
\* there are entries and leaves at least one entry of a list that had one
C17_FilterTerminates ==
    With(Get(load_config(World).output, "commands", <<>>),
         LAMBDA cmds :
            With(OutputsInitUpTo(cmds, files, Len(cmds)),
                 LAMBDA g :
                    /\ filter_passes(g.outputs, g.files) <= Len(g.outputs)
                    /\ g.outputs # <<>> => filter_matching(g.outputs, g.files) # <<>>
                    /\ elements.stage >= 3 =>
                          elements.outputs = filter_matching(g.outputs, g.files)))

\* The load has filtered two entries whose patterns match each other
C17_Witness ==
    /\ elements.stage >= 3
    /\ Len(DocEntries(World)) = 2
    /\ \A i \in 1..2 : tokens(DocEntries(World)[i]) # <<>>
    /\ matches_regex(DocEntries(World)[1], source(DocEntries(World)[2]))
    /\ matches_regex(DocEntries(World)[2], source(DocEntries(World)[1]))
    /\ Len(Working(World)) = 1

\* C18: the name the user gives to a path token is the name of that token
\* when the document the edit commits has been loaded again
C18_ConcatSurvives ==
    CanCommit =>
        \A i \in DOMAIN elements.outputs :
            OutputServed(elements, i) =>
                \A t \in DOMAIN elements.outputs[i].concat :
                    With(Run(concat_update_attribute(World, i, t, "name", <<"Sample ID">>)),
                         LAMBDA r :
                            r.ran /\ r.ok =>
                                /\ i \in DOMAIN r.W.elements.outputs
                                /\ t \in DOMAIN r.W.elements.outputs[i].concat
                                /\ r.W.elements.outputs[i].concat[t].name = <<"Sample ID">>)

\* The tabular entries of a dumped document
Tabular(doc) ==
    {doc.output.commands[i] : i \in DOMAIN doc.output.commands} \ {Manifest}

\* C19: in the document an edit commits, and in the one the download
\* buttons hold, an entry whose source has no token has no concat
C19_NoTokensNoConcat ==
    /\ last.dumped # Null =>
          \A fc \in Tabular(last.dumped) : tokens(fc) = <<>> => ~Has(fc, "concat")
    /\ elements.text # NoText =>
          \A fc \in Tabular(elements.text) : tokens(fc) = <<>> => ~Has(fc, "concat")

\* C20: in the document the loaded elements dump, the concat of an entry
\* whose source has tokens holds one entry for each distinct token name
C20_OneEntryPerToken ==
    elements.text # NoText =>
        \A fc \in Tabular(elements.text) :
            tokens(fc) # <<>> =>
                /\ Has(fc, "concat")
                /\ {fc.concat[i].token : i \in DOMAIN fc.concat} = Range(tokens(fc))
                /\ Len(fc.concat) = Cardinality(Range(tokens(fc)))

\* The target the source path of an entry stands for: the path without
\* the fixed prefix, '_' for every '/', and ".parquet" at the end
DerivedTarget(fc) ==
    With(Get(fc.params, "source", <<source_prefix>>),
         LAMBDA src :
            [i \in 1..(Len(src) - 1) |-> IF src[i + 1] = "/" THEN "_" ELSE src[i + 1]]
            \o <<".parquet">>)

WellTargeted(doc) ==
    \A fc \in Tabular(doc) :
        StartsWith(Get(fc.params, "source", <<source_prefix>>), <<source_prefix>>)
            => Has(fc.params, "target") /\ fc.params.target = DerivedTarget(fc)

\* C21: in the document an edit commits, and in the one the download
\* buttons hold, the target of every tabular entry is derived from its
\* source
C21_TargetFromSource ==
    /\ last.dumped # Null => WellTargeted(last.dumped)
    /\ elements.text # NoText => WellTargeted(elements.text)

\* An edit has committed an entry whose source path has a '/'
C21_Witness ==
    /\ last.op = "edit" /\ last.ran /\ last.ok
    /\ last.dumped # Null
    /\ \E fc \in Tabular(last.dumped) :
          /\ Has(fc.params, "source")
          /\ "/" \in Range(fc.params.source)
          /\ "_" \in Range(fc.params.target)

(***************************************************************************)
(* The form entries                                                        *)
(***************************************************************************)
\* The node of a form tree at the end of path
RECURSIVE FormNode(_, _)
FormNode(form, path) ==
    IF path = <<>> THEN form ELSE FormNode(form.properties[Head(path)], Tail(path))

\* The node of the i-th parameter in the committed document of W, after
\* the Form Entry Type of that parameter was switched to val
SwitchedNode(i, val, ok(_)) ==
    With(Run(param_update_attribute(World, i, "form_type", val)),
         LAMBDA r :
            r.ran /\ r.ok =>
                ok(FormNode(r.W.docs[r.W.config].form.form, elements.params[i].form_key)))

FormEntryServed(i) ==
    /\ ParamServed(elements, i)
    /\ elements.params[i].input_type = "Form Entry"

\* C22: after the Form Entry Type of a parameter is switched to
\* User-Provided Value, its committed form node has no file, pathType or
\* process
C22_UserValueStripsFields ==
    CanCommit =>
        \A i \in DOMAIN elements.params :
            FormEntryServed(i) =>
                SwitchedNode(i, "User-Provided Value",
                             LAMBDA node : DOMAIN node \cap {"file", "pathType", "process"} = {})

\* C23: after a switch to Cirro Dataset the committed form node has
\* pathType "dataset", a process and no file; after a switch to Input File
\* it has pathType "dataset", the file "**/*" and no process
C23_DatasetFields ==
    CanCommit =>
        \A i \in DOMAIN elements.params :
            FormEntryServed(i) =>
                /\ SwitchedNode(i, "Cirro Dataset",
                                LAMBDA node :
                                    /\ Get(node, "pathType", "") = "dataset"
                                    /\ Has(node, "process") /\ ~Has(node, "file"))
                /\ SwitchedNode(i, "Input File",
                                LAMBDA node :
                                    /\ Get(node, "pathType", "") = "dataset"
                                    /\ Get(node, "file", <<>>) = <<"**", "/", "*">>
                                    /\ ~Has(node, "process"))

(***************************************************************************)
(* Removing a parameter                                                    *)
(***************************************************************************)
ListedIds(E) == {E.params[j].id : j \in DOMAIN E.params}

\* C24: removing a parameter takes exactly its id out of the input mapping
\* of the dumped document and leaves the other entries as they were; the
\* parameter stays in the list, marked deleted, until the elements are
\* loaded again
C24_RemoveDropsOneInput ==
    CanCommit =>
        \A i \in DOMAIN elements.params :
            ParamServed(elements, i) =>
                /\ With(param_remove(World, i).W.elements,
                        LAMBDA E :
                            /\ Len(E.params) = Len(elements.params)
                            /\ E.params[i].id = elements.params[i].id
                            /\ E.params[i].deleted)
                /\ With(Run(param_remove(World, i)),
                        LAMBDA r :
                            /\ r.ran /\ r.ok
                            /\ DOMAIN r.dumped.input
                                  = DOMAIN Current(World).input \ {elements.params[i].id}
                            /\ \A k \in DOMAIN r.dumped.input :
                                  r.dumped.input[k] = Current(World).input[k]
                            /\ elements.params[i].id \notin ListedIds(r.W.elements))

\* A parameter was removed while another one stayed
C24_Witness ==
    /\ last.op = "edit" /\ last.ran /\ last.ok
    /\ last.dumped # Null
    /\ DOMAIN last.dumped.input # {}
    /\ Len(elements.params) = Cardinality(DOMAIN last.dumped.input)
    /\ \E k \in DOMAIN last.before.input : k \notin DOMAIN last.dumped.input

(***************************************************************************)
(* Hand-written forms and outputs                                          *)
(***************************************************************************)
Committed == load_config(World)

\* The form paths of the Form Entry bindings of a document
FormPaths(doc) ==
    {Split(Tail(doc.input[j].v), ".") :
        j \in {m \in DOMAIN doc.input :
                  /\ doc.input[m].v # <<>>
                  /\ Head(doc.input[m].v) = FormPrefix}}

RECURSIVE HasNode(_, _)
HasNode(form, path) ==
    \/ path = <<>>
    \/ /\ Has(form, "properties")
       /\ Head(path) \in DOMAIN form.properties
       /\ HasNode(form.properties[Head(path)], Tail(path))

\* A dataset node without process and file, or a references node whose
\* file is missing or does not start with **/
Unclassifiable(node) ==
    \/ /\ Get(node, "pathType", "") = "dataset"
       /\ ~Has(node, "process") /\ ~Has(node, "file")
    \/ /\ Get(node, "pathType", "") = "references"
       /\ ~(Has(node, "file") /\ StartsWith(node.file, <<"**", "/">>))

HoldsUnclassifiable(doc) ==
    \E path \in FormPaths(doc) :
        HasNode(doc.form.form, path) /\ Unclassifiable(FormNode(doc.form.form, path))

\* C25: a committed document with a Form Entry whose node is a dataset
\* without process and file, or a reference with a file that is missing or
\* does not start with **/, is not loaded: no parameter is built from it
C25_UnclassifiableNodeFails ==
    (config # NoDoc /\ HoldsUnclassifiable(Committed)) =>
        /\ elements.stage = 1
        /\ elements.params = <<>>

C25_Witness ==
    /\ config # NoDoc /\ HoldsUnclassifiable(Committed)
    /\ elements.stage = 1

\* C26: a committed document whose output list has an entry without a
\* command, or with a command that is not known, is not loaded
C26_UnknownCommandFails ==
    (/\ config # NoDoc
     /\ \E i \in DOMAIN Get(Committed.output, "commands", <<>>) :
           Get(files[Committed.output.commands[i]], "command", "")
               \notin commands \cup {Manifest.command})
        => elements.stage < 3

\* C27: the form path of every Form Entry of a committed document is
\* resolved without a missing key, whatever the form tree
C27_FormPathResolves ==
    config # NoDoc =>
        \A path \in FormPaths(Committed) : FormElements(path, Committed.form.form).ok

(***************************************************************************)
(* Bootstrapping from example files                                        *)
(***************************************************************************)
\* A delimiter is accepted for a file when it reads two columns or more
Accepts(file, d) == ~file.read[d].raised /\ Len(file.read[d].columns) >= 2

HasTsv(file) == \E i \in DOMAIN file.name : file.name[i] \in TsvAtoms

FirstDelimiter(file) == IF HasTsv(file) THEN Tab ELSE Comma

SecondDelimiter(file) == IF HasTsv(file) THEN Comma ELSE Tab

Readable(file) == \E d \in {Tab, Comma} : Accepts(file, d)

\* The tables of a document
Tables(doc) ==
    {doc.output.commands[i] :
        i \in {j \in DOMAIN Get(doc.output, "commands", <<>>) :
                  Get(doc.output.commands[j], "command", "") = "hot.Parquet"}}

\* The tables of a document that were made from a file
TablesOf(doc, file) ==
    {fc \in Tables(doc) : fc.params.source = <<source_prefix>> \o Tail(file.name)}

\* The files of a list that can be read, in the order of the list
ReadableOf(file_list) == SelectIdx(file_list, LAMBDA i : Readable(file_list[i]))

HistoryValues(W) == [i \in DOMAIN W.history |-> View(W, W.history[i])]

\* What the bootstrapping from file_list leaves as the output list
Regenerated(cmds, picked) ==
    /\ Len(cmds) = Len(picked) + 1
    /\ cmds[Len(cmds)] = Manifest
    /\ \A i \in DOMAIN picked :
          /\ cmds[i].command = "hot.Parquet"
          /\ cmds[i].params.source = <<source_prefix>> \o Tail(picked[i].name)
          /\ cmds[i].params.name = Replace(Tail(picked[i].name), "/", "_")

\* C28: bootstrapping from a list of files leaves as the output list one
\* specification per file that could be read, in the order of the list,
\* and the manifest marker after them, and nothing else; with an empty
\* list the document and the history stay as they are
C28_DestructiveRegeneration ==
    \A file_list \in ExampleLists :
        CanBootstrap(World, file_list) =>
            With(Run(parse_example_dataset(World, file_list)),
                 LAMBDA r :
                    IF file_list = <<>>
                    THEN /\ Current(r.W) = Current(World)
                         /\ HistoryValues(r.W) = HistoryValues(World)
                    ELSE /\ r.ran /\ r.ok
                         /\ Regenerated(Current(r.W).output.commands,
                                         ReadableOf(file_list)))

\* Two files were parsed over a document that had another table
C28_Witness ==
    /\ last.op = "examples" /\ last.ran /\ last.ok
    /\ Cardinality(Tables(Current(World))) = 2
    /\ \E fc \in Tables(last.before) :
          \A g \in Tables(Current(World)) : g.params.source # fc.params.source

\* C29: the table made from a file has the first delimiter, in the order
\* tab, comma when the name holds tsv and comma, tab otherwise, that reads
\* two columns or more; a file that neither delimiter reads so has no table
C29_FirstAcceptedDelimiter ==
    config # NoDoc =>
        \A file \in example_files :
            \A fc \in TablesOf(Current(World), file) :
                /\ Readable(file)
                /\ fc.params.read_csv.parse.delimiter =
                      IF Accepts(file, FirstDelimiter(file)) THEN FirstDelimiter(file)
                      ELSE SecondDelimiter(file)

\* A table made with the second delimiter, and one of a file that both read
C29_Witness ==
    /\ last.op = "examples" /\ last.ran /\ last.ok
    /\ \E file \in example_files :
          /\ ~Accepts(file, FirstDelimiter(file))
          /\ TablesOf(Current(World), file) # {}
    /\ \E file \in example_files :
          /\ Accepts(file, Tab) /\ Accepts(file, Comma)
          /\ TablesOf(Current(World), file) # {}

\* The entries of the metadata of a column's term that name the file
ExactEntries(col, file) ==
    With(Get(Get(terms, sanitize(col), EmptyDict), "metadata", <<>>),
         LAMBDA metadata :
            {metadata[i] : i \in {j \in DOMAIN metadata :
                                     WithoutData(metadata[j].file) = WithoutData(file.name)}})

HasWildcard(col) ==
    With(Get(Get(terms, sanitize(col), EmptyDict), "metadata", <<>>),
         LAMBDA metadata : \E i \in DOMAIN metadata : metadata[i].file = <<"*">>)

\* C30: a column whose term has an entry for the file and a wildcard
\* entry gets the name and the description of the entry for the file
C30_ExactBeforeWildcard ==
    config # NoDoc =>
        \A file \in example_files :
            \A fc \in TablesOf(Current(World), file) :
                \A i \in DOMAIN fc.params.cols :
                    With(fc.params.cols[i],
                         LAMBDA c :
                            (ExactEntries(c.col, file) # {} /\ HasWildcard(c.col)) =>
                                \E e \in ExactEntries(c.col, file) :
                                    c.name = e.name /\ c.desc = e.desc)

(***************************************************************************)
(* The manifest marker                                                     *)
(***************************************************************************)
\* The manifest marker is the last entry of the list and no other
MarkerLast(doc) ==
    With(Get(doc.output, "commands", <<>>),
         LAMBDA cmds :
            /\ cmds # <<>>
            /\ \A i \in DOMAIN cmds : IsManifest(cmds[i]) <=> i = Len(cmds))

\* C31: the output list of a document that a dump or the bootstrapping
\* from example files produced ends with the manifest marker and holds it
\* once, also when the document was loaded and dumped again
C31_MarkerLastAndOnce ==
    /\ last.dumped # Null => MarkerLast(last.dumped)
    /\ last.again # Null => MarkerLast(last.again)
    /\ elements.text # NoText => MarkerLast(elements.text)
    /\ (last.op = "examples" /\ last.ran /\ last.ok) => MarkerLast(Current(World))

\* A dump of a document that the bootstrapping had made
C31_Witness ==
    /\ last.op = "edit" /\ last.ran /\ last.ok
    /\ last.dumped # Null
    /\ Tables(last.dumped) # {}
    /\ Tables(last.before) # Tables(last.dumped)

(***************************************************************************)
(* The past after an import and after the bootstrapping                    *)
(***************************************************************************)
\* The last operation, one of ops, changed the document the session held
Changed(ops) ==
    /\ last.op \in ops /\ last.ran /\ last.ok
    /\ last.held
    /\ last.before # Current(World)

\* The head of the past is the document as it was before the last operation
PastHoldsBefore ==
    /\ history # <<>>
    /\ View(World, history[1]) = last.before

\* C32: after an import that changed the committed document D, the head of
\* the past is structurally equal to D
C32_ImportKeepsPrevious ==
    Changed({"import_all", "import_part"}) => PastHoldsBefore

\* C33: after the bootstrapping replaced the output list of the committed
\* document D, the head of the past has the output list of D
C33_BootstrapKeepsPrevious ==
    Changed({"examples"}) =>
        /\ history # <<>>
        /\ View(World, history[1]).output = last.before.output

(***************************************************************************)
(* The history when an edit fails                                          *)
(***************************************************************************)
\* C34: an edit of the workflow name whose dump fails leaves the past and
\* the future as they were
C34_FailedEditKeepsHistory ==
    CanCommit =>
        \A val \in WorkflowNames :
            With(Run(update_value(World, "name", val)),
                 LAMBDA r :
                    (r.ran /\ ~r.ok) =>
                        /\ SameViews(World, history, r.W, r.W.history)
                        /\ SameViews(World, future, r.W, r.W.future))

(***************************************************************************)
(* The ids of the parameters                                               *)
(***************************************************************************)
\* C35: after an accepted change of a parameter's id the input mapping of
\* the committed document has one entry for each parameter of the list
C35_OneEntryPerParameter ==
    CanCommit =>
        \A i \in DOMAIN elements.params :
            ParamServed(elements, i) =>
                \A val \in RenameIds :
                    With(Run(param_update_attribute(World, i, "id", val)),
                         LAMBDA r :
                            (r.ran /\ r.ok) =>
                                Cardinality(DOMAIN r.dumped.input)
                                    = Cardinality({j \in DOMAIN elements.params :
                                                      ~elements.params[j].deleted}))

\* The form paths of the Form Entry bindings of a dumped document
BoundPaths(dumped) ==
    {Split(Tail(dumped.input[k]), ".") :
        k \in {m \in DOMAIN dumped.input :
                  dumped.input[m] # <<>> /\ Head(dumped.input[m]) = FormPrefix}}

\* C36: every Form Entry binding of a dumped document has a node of the
\* form tree at each prefix of its path
C36_BoundNodesExist ==
    last.dumped # Null =>
        \A path \in BoundPaths(last.dumped) :
            \A n \in 1..Len(path) : HasNode(last.dumped.form.form, SubSeq(path, 1, n))

(***************************************************************************)
(* The sections an edit of a parameter does not target                     *)
(***************************************************************************)
OtherSections == {"dynamo", "output", "compute", "preprocess"}

\* C37: an accepted change of a parameter's id leaves the dynamo, output,
\* compute and preprocess sections of the committed document as they were
C37_ParameterEditFrame ==
    CanCommit =>
        \A i \in DOMAIN elements.params :
            ParamServed(elements, i) =>
                \A val \in RenameIds :
                    With(Run(param_update_attribute(World, i, "id", val)),
                         LAMBDA r :
                            (r.ran /\ r.ok) =>
                                \A kw \in OtherSections :
                                    Current(r.W)[kw] = Current(World)[kw])

(***************************************************************************)
(* The sub-kind of a form entry across a switch and the next load          *)
(***************************************************************************)
\* C38: after the Form Entry Type of a parameter is switched to K and the
\* edit is committed, the elements loaded from the committed document hold
\* that parameter as a Form Entry of sub-kind K
C38_SwitchedKindReloads ==
    CanCommit =>
        \A i \in DOMAIN elements.params :
            FormEntryServed(i) =>
                \A K \in form_type_options :
                    With(Run(param_update_attribute(World, i, "form_type", K)),
                         LAMBDA r :
                            (r.ran /\ r.ok) =>
                                /\ i \in DOMAIN r.W.elements.params
                                /\ r.W.elements.params[i].id = elements.params[i].id
                                /\ r.W.elements.params[i].input_type = "Form Entry"
                                /\ r.W.elements.params[i].form_type = K)

\* A committed switch from Cirro Reference to Input File
C38_Witness ==
    /\ last.op = "edit" /\ last.ran /\ last.ok /\ last.held
    /\ \E i \in DOMAIN elements.params :
          /\ FormEntryServed(i)
          /\ elements.params[i].form_type = "Input File"
          /\ HasNode(last.before.form.form, elements.params[i].form_key)
          /\ Get(FormNode(last.before.form.form, elements.params[i].form_key),
                 "pathType", "") = "references"

(***************************************************************************)
(* autoretry                                                               *)
(***************************************************************************)
\* The calls made so far whose outcome ends the loop: a value, an
\* exception that is not retryable, or the retryable one at the last attempt
Ending(j) ==
    \/ call.func[j] \in Returns \ {"None"}
    \/ call.func[j] \in Raises \ {"TransportAlreadyConnected"}
    \/ call.func[j] = "TransportAlreadyConnected" /\ j = call.retries

\* C39: the wrapper calls the function at most retries times and never
\* again after a call returned a value, which it returns; it goes on after a
\* retryable exception at every attempt but the last, and the retryable
\* exception leaves the wrapper exactly when the last attempt raised it
C39_AutoretryBounded ==
    call.pc # "idle" =>
        /\ call.calls <= call.retries
        /\ \A j \in 1..(call.calls - 1) : ~Ending(j)
        /\ call.pc = "returned" =>
              /\ call.raised = "None"
              /\ IF call.calls > 0 /\ call.func[call.calls] \in Returns
                 THEN call.result = call.func[call.calls]
                 ELSE call.result = "None"
              /\ call.result = "None" => call.calls = call.retries
              /\ call.calls > 0 =>
                    ~(call.calls = call.retries
                      /\ call.func[call.calls] = "TransportAlreadyConnected")
        /\ (call.pc = "raised" /\ call.raised = "TransportAlreadyConnected") =>
              /\ call.calls = call.retries
              /\ call.func[call.retries] = "TransportAlreadyConnected"
        /\ (call.pc = "for" /\ call.calls > 0) =>
              /\ call.func[call.calls] \in {"None", "TransportAlreadyConnected"}
              /\ call.calls < call.retries
                 \/ call.func[call.calls] = "None"

\* A value returned by the third call, after a swallowed exception
C39_Witness ==
    /\ call.pc = "returned"
    /\ call.calls = 3
    /\ call.result = "x"
    /\ call.func[1] = "TransportAlreadyConnected"
    /\ call.func[2] = "None"

====
